---------------------------- MODULE Spec2Model ----------------------------
(***************************************************************************)
(* The Lipona tree-walking interpreter (src/src/interpreter.rs) and its    *)
(* standard library (src/src/stdlib.rs, src/I/O) as a state machine.       *)
(*                                                                         *)
(* The recursion of the Rust evaluator is made explicit: `ctl` is what the *)
(* evaluator is working on, `kont` is the stack of suspended Rust calls    *)
(* (one frame per active exec_stmt / eval_expr / call_function ...).       *)
(* One action is one step of one match arm of the source.                  *)
(***************************************************************************)
EXTENDS Integers, Sequences, FiniteSets, TLC

(***************************************************************************)
(* The interpreter's state.                                                *)
(*   program     the Program handed to run                                 *)
(*   env         Interpreter.env.scopes                                    *)
(*   call_depth  Interpreter.call_depth                                    *)
(*   out         the lines toki has printed                                *)
(*   ctl         where the evaluator is:                                   *)
(*       run/seq   at the head of the statement loop of run /              *)
(*                 exec_block_in_current_scope, `stmts` still to execute   *)
(*       stmt      entering exec_stmt          block  entering exec_block  *)
(*       expr      entering eval_expr          call   entering             *)
(*       tmpl      in eval_template_string's loop     call_function_inner  *)
(*       args      in eval_args' iteration                                 *)
(*       val / cf / vals / err   the callee returned Ok(value) /           *)
(*                 Ok(ControlFlow) / Ok(Vec<Value>) / Err(error)           *)
(*       done      run has returned `r`                                    *)
(*   kont        the suspended calls, innermost last                       *)
(***************************************************************************)
VARIABLES program, ctl, kont, env, call_depth, out

(***************************************************************************)
(* Text.  A Rust String is a sequence of characters; a character is a      *)
(* one-character string.  ASCII lists the characters the model uses in     *)
(* increasing byte order, so that comparing positions is comparing bytes.  *)
(***************************************************************************)
ASCII ==
    << " ", "!", "(", ")", "+", ",", "-", ".",
       "0", "1", "2", "3", "4", "5", "6", "7", "8", "9",
       ":", "<", ">", "N", "[", "]", "_",
       "a", "b", "c", "d", "e", "f", "g", "h", "i", "j", "k", "l", "m",
       "n", "o", "p", "q", "r", "s", "t", "u", "v", "w", "x", "y", "z",
       "{", "}" >>

Byte(c) ==
    CHOOSE i \in 1..Len(ASCII) : ASCII[i] = c

\* <str as Ord>::cmp: bytewise lexicographic, a proper prefix sorts first.
StrLt(a, b) ==
    \E i \in 1..(Len(a) + 1) :
        /\ \A j \in 1..(i - 1) : j <= Len(b) /\ a[j] = b[j]
        /\ \/ i = Len(a) + 1 /\ Len(b) >= i
           \/ i <= Len(a) /\ i <= Len(b) /\ Byte(a[i]) < Byte(b[i])

RECURSIVE Insert(_, _)
Insert(s, strs) ==
    IF strs = << >> THEN << s >>
    ELSE IF StrLt(s, Head(strs)) THEN << s >> \o strs
    ELSE << Head(strs) >> \o Insert(s, Tail(strs))

\* Vec<String>::sort
RECURSIVE Sort(_)
Sort(strs) ==
    IF strs = << >> THEN << >> ELSE Insert(Head(strs), Sort(Tail(strs)))

\* [String]::join
RECURSIVE Join(_, _)
Join(strs, sep) ==
    IF strs = << >> THEN << >>
    ELSE IF Len(strs) = 1 THEN strs[1]
    ELSE strs[1] \o sep \o Join(Tail(strs), sep)

Digits ==
    << "0", "1", "2", "3", "4", "5", "6", "7", "8", "9" >>

IsDigit(c) ==
    \E d \in 1..10 : Digits[d] = c

DigitVal(c) ==
    (CHOOSE d \in 1..10 : Digits[d] = c) - 1

\* The decimal digits of a natural number (what `{}` prints for an i64 >= 0).
RECURSIVE NatStr(_)
NatStr(n) ==
    IF n < 10 THEN << Digits[n + 1] >>
    ELSE NatStr(n \div 10) \o << Digits[(n % 10) + 1] >>

(***************************************************************************)
(* Numbers.  An f64 is a record [k, num, den]: a finite number is the      *)
(* reduced fraction num/den (den > 0), the infinities are 1/0 and -1/0,    *)
(* NaN is 0/0.  Finite arithmetic is exact; the model's finite numbers     *)
(* stay far inside the range where f64 is exact too, so rounding and       *)
(* overflow to infinity do not arise.  -0.0 is identified with 0.0, which  *)
(* the interpreter cannot tell apart (0.0 == -0.0, both print as 0).       *)
(***************************************************************************)
NaN ==
    [k |-> "nan", num |-> 0, den |-> 0]

Inf(sign) ==
    [k |-> "inf", num |-> sign, den |-> 0]

Abs(i) ==
    IF i < 0 THEN -i ELSE i

RECURSIVE Gcd(_, _)
Gcd(a, b) ==
    IF b = 0 THEN a ELSE Gcd(b, a % b)

Sign(i) ==
    IF i < 0 THEN -1 ELSE IF i > 0 THEN 1 ELSE 0

\* The finite number num/den, den # 0.
Frac(num, den) ==
    LET g == Gcd(Abs(num), Abs(den))
    IN  [k |-> "fin", num |-> (Sign(den) * num) \div g, den |-> Abs(den) \div g]

Num(i) ==
    Frac(i, 1)

is_nan(n) ==
    n.k = "nan"

is_infinite(n) ==
    n.k = "inf"

\* f64 == : NaN is equal to nothing, itself included.
NumEq(a, b) ==
    ~is_nan(a) /\ ~is_nan(b) /\ a = b

\* f64 < : false whenever an operand is NaN.
NumLt(a, b) ==
    /\ ~is_nan(a) /\ ~is_nan(b)
    /\ CASE a.k = "inf" /\ b.k = "inf" -> a.num < b.num
         [] a.k = "inf" -> a.num < 0
         [] b.k = "inf" -> b.num > 0
         [] OTHER -> a.num * b.den < b.num * a.den

NumGt(a, b) ==
    NumLt(b, a)

NumNeg(a) ==
    [a EXCEPT !.num = -a.num]

NumAdd(a, b) ==
    CASE is_nan(a) \/ is_nan(b) -> NaN
      [] a.k = "inf" /\ b.k = "inf" -> IF a.num = b.num THEN a ELSE NaN
      [] a.k = "inf" -> a
      [] b.k = "inf" -> b
      [] OTHER -> Frac(a.num * b.den + b.num * a.den, a.den * b.den)

NumSub(a, b) ==
    NumAdd(a, NumNeg(b))

NumMul(a, b) ==
    CASE is_nan(a) \/ is_nan(b) -> NaN
      [] a.k = "inf" \/ b.k = "inf" ->
            IF a.num = 0 \/ b.num = 0 THEN NaN ELSE Inf(Sign(a.num) * Sign(b.num))
      [] OTHER -> Frac(a.num * b.num, a.den * b.den)

\* f64 / with a non-zero divisor (eval_binary raises DivisionByZero before
\* dividing by zero).
NumDiv(a, b) ==
    CASE is_nan(a) \/ is_nan(b) -> NaN
      [] a.k = "inf" /\ b.k = "inf" -> NaN
      [] a.k = "inf" -> Inf(a.num * Sign(b.num))
      [] b.k = "inf" -> Num(0)
      [] OTHER -> Frac(a.num * b.den, a.den * b.num)

\* f64::fract() == 0.0 (false for NaN and the infinities, whose fract is NaN).
IsWhole(n) ==
    n.k = "fin" /\ n.den = 1


(***************************************************************************)
(* Runtime values (enum Value).  A Map is a function from its keys (texts) *)
(* to values; a Function carries its parameter names and its body.         *)
(***************************************************************************)
Number(n) ==
    [t |-> "Number", n |-> n]

String(s) ==
    [t |-> "String", s |-> s]

Bool ==
    [t |-> "Bool"]

List(items) ==
    [t |-> "List", items |-> items]

Map(m) ==
    [t |-> "Map", m |-> m]

Ala ==
    [t |-> "Ala"]

Function(params, body) ==
    [t |-> "Function", params |-> params, body |-> body]

\* HashMap::new()
EmptyMap ==
    [key \in {} |-> Ala]

\* HashMap::insert on a clone of m.
MapInsert(m, key, v) ==
    [x \in (DOMAIN m) \cup {key} |-> IF x = key THEN v ELSE m[x]]

is_truthy(v) ==
    CASE v.t = "Bool" -> TRUE
      [] v.t = "Ala" -> FALSE
      [] v.t = "Number" -> ~is_nan(v.n) /\ ~NumEq(v.n, Num(0))
      [] v.t = "String" -> v.s # << >>
      [] v.t = "List" -> v.items # << >>
      [] v.t = "Map" -> DOMAIN v.m # {}
      [] v.t = "Function" -> TRUE

type_name(v) ==
    CASE v.t = "Number" -> "nanpa"
      [] v.t = "String" -> "sitelen"
      [] v.t = "Bool" -> "lon"
      [] v.t = "List" -> "kulupu"
      [] v.t = "Map" -> "nasin"
      [] v.t = "Ala" -> "ala"
      [] v.t = "Function" -> "ilo"

\* #[derive(PartialEq)] for Value: same variant and equal payloads, with
\* f64 equality on numbers (so a value holding NaN is not equal to itself).
RECURSIVE ValEq(_, _)
ValEq(a, b) ==
    IF a.t # b.t THEN FALSE
    ELSE CASE a.t = "Number" -> NumEq(a.n, b.n)
           [] a.t = "String" -> a.s = b.s
           [] a.t = "List" ->
                /\ Len(a.items) = Len(b.items)
                /\ \A i \in 1..Len(a.items) : ValEq(a.items[i], b.items[i])
           [] a.t = "Map" ->
                /\ DOMAIN a.m = DOMAIN b.m
                /\ \A key \in DOMAIN a.m : ValEq(a.m[key], b.m[key])
           [] a.t = "Function" -> a.params = b.params /\ a.body = b.body
           [] OTHER -> TRUE

\* HashMap::iter(): the keys in an order the program does not control.
RECURSIVE IterKeys(_)
IterKeys(keys) ==
    IF keys = {} THEN << >>
    ELSE LET key == CHOOSE x \in keys : TRUE
         IN  << key >> \o IterKeys(keys \ {key})

\* The digits after the decimal point of rem/den (0 <= rem < den), by long
\* division; exact when the expansion ends within FracDigits digits.
FracDigits ==
    4

RECURSIVE FracStr(_, _, _)
FracStr(rem, den, left) ==
    IF rem = 0 \/ left = 0 THEN << >>
    ELSE << Digits[((rem * 10) \div den) + 1] >> \o FracStr((rem * 10) % den, den, left - 1)

\* `{n}` for an f64.
FloatStr(n) ==
    CASE is_nan(n) -> << "N", "a", "N" >>
      [] is_infinite(n) ->
            (IF n.num < 0 THEN << "-" >> ELSE << >>) \o << "i", "n", "f" >>
      [] OTHER ->
            (IF n.num < 0 THEN << "-" >> ELSE << >>)
                \o NatStr(Abs(n.num) \div n.den)
                \o (IF n.den = 1 THEN << >>
                    ELSE << "." >> \o FracStr(Abs(n.num) % n.den, n.den, FracDigits))

\* F64_SAFE_INT_MIN <= n <= F64_SAFE_INT_MAX.  Every finite number of the
\* model lies within +-2^53 (its numerators are 32-bit), so the test is true
\* exactly for the finite numbers.
WithinSafeInt(n) ==
    n.k = "fin"

\* impl Display for Value.
RECURSIVE Display(_)
Display(v) ==
    CASE v.t = "Number" ->
            IF IsWhole(v.n) /\ WithinSafeInt(v.n)
            THEN (IF v.n.num < 0 THEN << "-" >> ELSE << >>) \o NatStr(Abs(v.n.num))
            ELSE FloatStr(v.n)
      [] v.t = "String" -> v.s
      [] v.t = "Bool" -> << "l", "o", "n" >>
      [] v.t = "List" ->
            LET strs == [i \in 1..Len(v.items) |-> Display(v.items[i])]
            IN  << "[" >> \o Join(strs, << ",", " " >>) \o << "]" >>
      [] v.t = "Map" ->
            LET keys == IterKeys(DOMAIN v.m)
                strs == [i \in 1..Len(keys) |->
                            keys[i] \o << ":", " " >> \o Display(v.m[keys[i]])]
            IN  << "{" >> \o Join(Sort(strs), << ",", " " >>) \o << "}" >>
      [] v.t = "Ala" -> << "a", "l", "a" >>
      [] v.t = "Function" ->
            << "<", "i", "l", "o", "(" >> \o Join(v.params, << ",", " " >>) \o << ")", ">" >>


(***************************************************************************)
(* Errors (enum RuntimeError) and results.  Messages that are only shown   *)
(* to the host are plain strings; Text turns characters into one.          *)
(***************************************************************************)
RECURSIVE Text(_)
Text(s) ==
    IF s = << >> THEN "" ELSE Head(s) \o Text(Tail(s))

UndefinedVariable(name) ==
    [err |-> "UndefinedVariable", name |-> name]

UndefinedFunction(name) ==
    [err |-> "UndefinedFunction", name |-> name]

DivisionByZero ==
    [err |-> "DivisionByZero"]

TypeError(expected, got) ==
    [err |-> "TypeError", expected |-> expected, got |-> got]

WrongArity(name, expected, got) ==
    [err |-> "WrongArity", name |-> name, expected |-> expected, got |-> got]

IndexOutOfBounds(index, len) ==
    [err |-> "IndexOutOfBounds", index |-> index, len |-> len]

InfiniteLoop ==
    [err |-> "InfiniteLoop"]

StackOverflow ==
    [err |-> "StackOverflow"]

Ok(v) ==
    [ok |-> TRUE, v |-> v]

Err(e) ==
    [ok |-> FALSE, e |-> e]

(***************************************************************************)
(* The standard library (src/I/O is the body of src/src/stdlib.rs).        *)
(***************************************************************************)
toki ==
    << "t", "o", "k", "i" >>

nanpa_sin ==
    << "n", "a", "n", "p", "a", "_", "s", "i", "n" >>

nanpa_len ==
    << "n", "a", "n", "p", "a", "_", "l", "e", "n" >>

sitelen_len ==
    << "s", "i", "t", "e", "l", "e", "n", "_", "l", "e", "n" >>

sitelen_sama ==
    << "s", "i", "t", "e", "l", "e", "n", "_", "s", "a", "m", "a" >>

kulupu_sin ==
    << "k", "u", "l", "u", "p", "u", "_", "s", "i", "n" >>

kulupu_len ==
    << "k", "u", "l", "u", "p", "u", "_", "l", "e", "n" >>

kulupu_ken ==
    << "k", "u", "l", "u", "p", "u", "_", "k", "e", "n" >>

kulupu_lon ==
    << "k", "u", "l", "u", "p", "u", "_", "l", "o", "n" >>

kulupu_aksen ==
    << "k", "u", "l", "u", "p", "u", "_", "a", "k", "s", "e", "n" >>

nasin_sin ==
    << "n", "a", "s", "i", "n", "_", "s", "i", "n" >>

nasin_ken ==
    << "n", "a", "s", "i", "n", "_", "k", "e", "n" >>

nasin_lon ==
    << "n", "a", "s", "i", "n", "_", "l", "o", "n" >>

check_arity(name, args, expected) ==
    IF Len(args) # expected
    THEN Err(WrongArity(name, expected, Len(args)))
    ELSE Ok(Ala)

\* Convert f64 to usize for indexing: Ok carries the index.
to_index(n) ==
    IF NumLt(n, Num(0)) \/ is_nan(n) \/ is_infinite(n) \/ ~IsWhole(n)
    THEN Err(TypeError("non-negative integer", Text(FloatStr(n))))
    ELSE IF ~WithinSafeInt(n)
    THEN Err(TypeError("index within safe integer range",
                       Text(FloatStr(n)) \o " exceeds maximum safe index"))
    ELSE Ok(n.num)

\* What toki prints: the display forms separated by single spaces (the
\* newline that ends the line is left out).
TokiLine(args) ==
    Join([i \in 1..Len(args) |-> Display(args[i])], << " " >>)

stdlib_toki(args) ==
    Ok(Ala)

\* str::parse::<f64>():
\*   Sign? ( 'inf' | 'infinity' | 'nan' | Number ),  letters in either case,
\*   Number ::= ( Digit+ | Digit+ '.' Digit* | Digit* '.' Digit+ ) Exp?
\*   Exp    ::= 'e' Sign? Digit+
\* "N" is the only upper-case letter of the model's alphabet.
Lower(c) ==
    IF c = "N" THEN "n" ELSE c

IndexOf(s, c) ==
    IF \E i \in 1..Len(s) : s[i] = c
    THEN CHOOSE i \in 1..Len(s) : s[i] = c /\ \A j \in 1..(i - 1) : s[j] # c
    ELSE 0

AllDigits(s) ==
    \A i \in 1..Len(s) : IsDigit(s[i])

RECURSIVE DigitsVal(_)
DigitsVal(s) ==
    IF s = << >> THEN 0
    ELSE DigitsVal(SubSeq(s, 1, Len(s) - 1)) * 10 + DigitVal(s[Len(s)])

RECURSIVE Pow10(_)
Pow10(n) ==
    IF n = 0 THEN 1 ELSE 10 * Pow10(n - 1)

IsSign(s) ==
    s # << >> /\ s[1] \in {"+", "-"}

ParseF64(s) ==
    LET body == IF IsSign(s) THEN Tail(s) ELSE s
        sign == IF IsSign(s) /\ s[1] = "-" THEN -1 ELSE 1
        low == [i \in 1..Len(body) |-> Lower(body[i])]
        e == IndexOf(low, "e")
        mant == IF e = 0 THEN low ELSE SubSeq(low, 1, e - 1)
        exp == IF e = 0 THEN << >> ELSE SubSeq(low, e + 1, Len(low))
        dot == IndexOf(mant, ".")
        ip == IF dot = 0 THEN mant ELSE SubSeq(mant, 1, dot - 1)
        fp == IF dot = 0 THEN << >> ELSE SubSeq(mant, dot + 1, Len(mant))
        expDigits == IF IsSign(exp) THEN Tail(exp) ELSE exp
        expVal == (IF IsSign(exp) /\ exp[1] = "-" THEN -1 ELSE 1) * DigitsVal(expDigits)
        scale == expVal - Len(fp)
        m == sign * DigitsVal(ip \o fp)
    IN  CASE low = << "i", "n", "f" >> -> Ok(Inf(sign))
          [] low = << "i", "n", "f", "i", "n", "i", "t", "y" >> -> Ok(Inf(sign))
          [] low = << "n", "a", "n" >> -> Ok(NaN)
          [] /\ AllDigits(ip) /\ AllDigits(fp) /\ Len(ip) + Len(fp) > 0
             /\ e = 0 \/ (expDigits # << >> /\ AllDigits(expDigits)) ->
                Ok(IF scale >= 0 THEN Frac(m * Pow10(scale), 1) ELSE Frac(m, Pow10(-scale)))
          [] OTHER -> Err("ParseFloatError")

stdlib_nanpa_sin(args) ==
    IF ~check_arity(nanpa_sin, args, 1).ok THEN check_arity(nanpa_sin, args, 1)
    ELSE CASE args[1].t = "String" ->
                IF ParseF64(args[1].s).ok
                THEN Ok(Number(ParseF64(args[1].s).v))
                ELSE Err(TypeError("valid number string", "invalid string"))
           [] args[1].t = "Number" -> Ok(Number(args[1].n))
           [] OTHER -> Err(TypeError("sitelen", type_name(args[1])))

\* The while loop of nanpa_len: val /= 10.0 as long as val >= 1.0.
RECURSIVE CountDigits(_)
CountDigits(val) ==
    IF ~NumLt(val, Num(1)) THEN 1 + CountDigits(NumDiv(val, Num(10))) ELSE 0

stdlib_nanpa_len(args) ==
    IF ~check_arity(nanpa_len, args, 1).ok THEN check_arity(nanpa_len, args, 1)
    ELSE IF args[1].t = "Number"
    THEN LET n == args[1].n
             abs == [n EXCEPT !.num = Abs(n.num)]
             count == CountDigits(Num(abs.num \div abs.den))
         IN  IF is_nan(n) \/ is_infinite(n)
             THEN Err(TypeError("finite number", Text(FloatStr(n))))
             ELSE Ok(Number(Num(IF NumLt(abs, Num(1)) THEN 1
                                ELSE IF count > 1 THEN count ELSE 1)))
    ELSE Err(TypeError("nanpa", type_name(args[1])))

stdlib_sitelen_len(args) ==
    IF ~check_arity(sitelen_len, args, 1).ok THEN check_arity(sitelen_len, args, 1)
    ELSE IF args[1].t = "String" THEN Ok(Number(Num(Len(args[1].s))))
    ELSE Err(TypeError("sitelen", type_name(args[1])))

expect_string(value) ==
    IF value.t = "String" THEN Ok(value.s)
    ELSE Err(TypeError("sitelen", type_name(value)))

stdlib_sitelen_sama(args) ==
    IF ~check_arity(sitelen_sama, args, 2).ok THEN check_arity(sitelen_sama, args, 2)
    ELSE IF ~expect_string(args[1]).ok THEN expect_string(args[1])
    ELSE IF ~expect_string(args[2]).ok THEN expect_string(args[2])
    ELSE Ok(IF args[1].s = args[2].s THEN Bool ELSE Ala)

stdlib_kulupu_sin(args) ==
    Ok(List(args))

stdlib_kulupu_len(args) ==
    IF ~check_arity(kulupu_len, args, 1).ok THEN check_arity(kulupu_len, args, 1)
    ELSE IF args[1].t = "List" THEN Ok(Number(Num(Len(args[1].items))))
    ELSE Err(TypeError("kulupu", type_name(args[1])))

\* A faulty kulupu_ken: a read past the end fails the way a write does.
kulupu_ken_strict(args) ==
    IF ~check_arity(kulupu_ken, args, 2).ok THEN check_arity(kulupu_ken, args, 2)
    ELSE CASE args[1].t = "List" /\ args[2].t = "Number" ->
                LET index == to_index(args[2].n)
                    items == args[1].items
                IN  IF ~index.ok THEN index
                    ELSE IF index.v >= Len(items)
                    THEN Err(IndexOutOfBounds(index.v, Len(items)))
                    ELSE Ok(items[index.v + 1])
           [] args[1].t = "List" -> Err(TypeError("nanpa", type_name(args[2])))
           [] OTHER -> Err(TypeError("kulupu", type_name(args[1])))

stdlib_kulupu_ken(args) ==
    IF ~check_arity(kulupu_ken, args, 2).ok THEN check_arity(kulupu_ken, args, 2)
    ELSE CASE args[1].t = "List" /\ args[2].t = "Number" ->
                LET index == to_index(args[2].n)
                    items == args[1].items
                IN  IF ~index.ok THEN index
                    ELSE IF index.v >= Len(items) THEN Ok(Ala)
                    ELSE Ok(items[index.v + 1])
           [] args[1].t = "List" -> Err(TypeError("nanpa", type_name(args[2])))
           [] OTHER -> Err(TypeError("kulupu", type_name(args[1])))

stdlib_kulupu_lon(args) ==
    IF ~check_arity(kulupu_lon, args, 3).ok THEN check_arity(kulupu_lon, args, 3)
    ELSE CASE args[1].t = "List" /\ args[2].t = "Number" ->
                LET index == to_index(args[2].n)
                    items == args[1].items
                IN  IF ~index.ok THEN index
                    ELSE IF index.v >= Len(items)
                    THEN Err(IndexOutOfBounds(index.v, Len(items)))
                    ELSE Ok(List([items EXCEPT ![index.v + 1] = args[3]]))
           [] args[1].t = "List" -> Err(TypeError("nanpa", type_name(args[2])))
           [] OTHER -> Err(TypeError("kulupu", type_name(args[1])))

stdlib_kulupu_aksen(args) ==
    IF ~check_arity(kulupu_aksen, args, 2).ok THEN check_arity(kulupu_aksen, args, 2)
    ELSE IF args[1].t = "List" THEN Ok(List(Append(args[1].items, args[2])))
    ELSE Err(TypeError("kulupu", type_name(args[1])))

stdlib_nasin_sin(args) ==
    IF ~check_arity(nasin_sin, args, 0).ok THEN check_arity(nasin_sin, args, 0)
    ELSE Ok(Map(EmptyMap))

stdlib_nasin_ken(args) ==
    IF ~check_arity(nasin_ken, args, 2).ok THEN check_arity(nasin_ken, args, 2)
    ELSE CASE args[1].t = "Map" /\ args[2].t = "String" ->
                IF args[2].s \in DOMAIN args[1].m THEN Ok(args[1].m[args[2].s]) ELSE Ok(Ala)
           [] args[1].t = "Map" -> Err(TypeError("sitelen", type_name(args[2])))
           [] OTHER -> Err(TypeError("nasin", type_name(args[1])))

stdlib_nasin_lon(args) ==
    IF ~check_arity(nasin_lon, args, 3).ok THEN check_arity(nasin_lon, args, 3)
    ELSE CASE args[1].t = "Map" /\ args[2].t = "String" ->
                Ok(Map(MapInsert(args[1].m, args[2].s, args[3])))
           [] args[1].t = "Map" -> Err(TypeError("sitelen", type_name(args[2])))
           [] OTHER -> Err(TypeError("nasin", type_name(args[1])))

\* StdLib::new: the names of the registry.
functions ==
    { toki, nanpa_sin, nanpa_len, sitelen_len, sitelen_sama,
      kulupu_sin, kulupu_len, kulupu_ken, kulupu_lon, kulupu_aksen,
      nasin_sin, nasin_ken, nasin_lon }

\* A faulty has_function: a name the user has bound would no longer count as
\* a stdlib name, so the user's binding would win.
has_function_unless_bound(name) ==
    name \in functions /\ \A j \in 1..Len(env) : name \notin DOMAIN env[j]

has_function(name) ==
    name \in functions

\* StdLib::call
StdLibCall(name, args) ==
    CASE name = toki -> stdlib_toki(args)
      [] name = nanpa_sin -> stdlib_nanpa_sin(args)
      [] name = nanpa_len -> stdlib_nanpa_len(args)
      [] name = sitelen_len -> stdlib_sitelen_len(args)
      [] name = sitelen_sama -> stdlib_sitelen_sama(args)
      [] name = kulupu_sin -> stdlib_kulupu_sin(args)
      [] name = kulupu_len -> stdlib_kulupu_len(args)
      [] name = kulupu_ken -> stdlib_kulupu_ken(args)
      [] name = kulupu_lon -> stdlib_kulupu_lon(args)
      [] name = kulupu_aksen -> stdlib_kulupu_aksen(args)
      [] name = nasin_sin -> stdlib_nasin_sin(args)
      [] name = nasin_ken -> stdlib_nasin_ken(args)
      [] name = nasin_lon -> stdlib_nasin_lon(args)
      [] OTHER -> Err(UndefinedFunction(name))

(***************************************************************************)
(* The AST (src/src/ast.rs).  A Block is a sequence of statements; an      *)
(* Option<Block> is a sequence of zero or one block.                       *)
(***************************************************************************)
ENumber(n) ==
    [e |-> "Number", n |-> n]

ETemplateString(parts) ==
    [e |-> "TemplateString", parts |-> parts]

EBool(b) ==
    [e |-> "Bool", b |-> b]

EVar(name) ==
    [e |-> "Var", name |-> name]

EBinary(left, op, right) ==
    [e |-> "Binary", left |-> left, op |-> op, right |-> right]

ENeg(inner) ==
    [e |-> "Neg", inner |-> inner]

EFuncCall(name, args) ==
    [e |-> "FuncCall", name |-> name, args |-> args]

Literal(s) ==
    [p |-> "Literal", s |-> s]

Interpolation(expr) ==
    [p |-> "Interpolation", expr |-> expr]

SAssign(target, value) ==
    [s |-> "Assign", target |-> target, value |-> value]

SIf(cond, then_block, else_block) ==
    [s |-> "If", cond |-> cond, then_block |-> then_block, else_block |-> else_block]

SWhile(cond, body) ==
    [s |-> "While", cond |-> cond, body |-> body]

SFuncDef(name, params, body) ==
    [s |-> "FuncDef", name |-> name, params |-> params, body |-> body]

SReturn(expr) ==
    [s |-> "Return", expr |-> expr]

SExpr(expr) ==
    [s |-> "Expr", expr |-> expr]

\* parse_comparison: the comparison word of the source text to its BinOp.
comp_kind(word) ==
    CASE word = "suli" -> "Gt"
      [] word = "lili" -> "Lt"
      [] word = "suli_sama" -> "Ge"
      [] word = "lili_sama" -> "Le"
      [] word = "sama" -> "Eq"

parse_comparison(left, word, right) ==
    EBinary(left, comp_kind(word), right)

\* The limits of the interpreter.
MAX_LOOP_ITERATIONS ==
    10000000

MAX_CALL_DEPTH ==
    1000

(***************************************************************************)
(* Environment: `scopes` is the stack of frames, scopes[1] the global one, *)
(* the last the innermost.  A frame is a function from names to values.    *)
(***************************************************************************)
push_scope(scopes) ==
    Append(scopes, EmptyMap)

\* In a release build a pop of the global frame is a no-op.
pop_scope(scopes) ==
    IF Len(scopes) > 1 THEN SubSeq(scopes, 1, Len(scopes) - 1) ELSE scopes

define(scopes, name, value) ==
    [scopes EXCEPT ![Len(scopes)] = MapInsert(@, name, value)]

\* The innermost frame that binds name, 0 when none does.
Binder(scopes, name) ==
    IF \E i \in 1..Len(scopes) : name \in DOMAIN scopes[i]
    THEN CHOOSE i \in 1..Len(scopes) :
            /\ name \in DOMAIN scopes[i]
            /\ \A j \in (i + 1)..Len(scopes) : name \notin DOMAIN scopes[j]
    ELSE 0

\* Environment::get: Some(v) is Ok(v), None is Err.
get(scopes, name) ==
    IF Binder(scopes, name) = 0 THEN Err("None")
    ELSE Ok(scopes[Binder(scopes, name)][name])

\* A faulty Environment::set: a name bound nowhere is defined in the global
\* frame.
set_defining_globally(scopes, name, value) ==
    IF Binder(scopes, name) = 0 THEN [scopes EXCEPT ![1] = MapInsert(@, name, value)]
    ELSE [scopes EXCEPT ![Binder(scopes, name)] = MapInsert(@, name, value)]

\* A faulty Environment::set: the search runs from the outermost frame, so
\* the outermost binding is the one overwritten.
set_outermost(scopes, name, value) ==
    IF Binder(scopes, name) = 0 THEN define(scopes, name, value)
    ELSE LET first == CHOOSE i \in 1..Len(scopes) :
                        /\ name \in DOMAIN scopes[i]
                        /\ \A j \in 1..(i - 1) : name \notin DOMAIN scopes[j]
         IN  [scopes EXCEPT ![first] = MapInsert(@, name, value)]

set(scopes, name, value) ==
    IF Binder(scopes, name) = 0 THEN define(scopes, name, value)
    ELSE [scopes EXCEPT ![Binder(scopes, name)] = MapInsert(@, name, value)]

\* A faulty isolate_for_function: the body would run on top of the caller's
\* scopes (dynamic scoping).
isolate_keeping_caller(scopes) ==
    scopes

\* A faulty isolate_for_function: the functions of the caller's local
\* frames stay visible to the body, with the global frame.
isolate_keeping_functions(scopes) ==
    << scopes[1] >>
        \o [j \in 1..(Len(scopes) - 1) |->
                LET frame == scopes[j + 1]
                    kept == { name \in DOMAIN frame : frame[name].t = "Function" }
                IN  [name \in kept |-> frame[name]]]

\* The scopes the function body runs in; the saved ones are the old scopes.
isolate_for_function(scopes) ==
    << scopes[1] >>

\* A faulty restore_scopes: the global frame the body worked on is kept
\* (globals shared with the callee).
restore_keeping_globals(saved_scopes) ==
    << env[1] >> \o Tail(saved_scopes)

restore_scopes(saved_scopes) ==
    saved_scopes

\* eval_binary's match on (op, left_val, right_val).
BinaryResult(op, l, r) ==
    CASE op = "Add" /\ l.t = "Number" /\ r.t = "Number" -> Ok(Number(NumAdd(l.n, r.n)))
      [] op = "Sub" /\ l.t = "Number" /\ r.t = "Number" -> Ok(Number(NumSub(l.n, r.n)))
      [] op = "Mul" /\ l.t = "Number" /\ r.t = "Number" -> Ok(Number(NumMul(l.n, r.n)))
      [] op = "Div" /\ l.t = "Number" /\ r.t = "Number" ->
            IF NumEq(r.n, Num(0)) THEN Err(DivisionByZero)
            ELSE Ok(Number(NumDiv(l.n, r.n)))
      [] op = "Add" /\ l.t = "String" /\ r.t = "String" -> Ok(String(l.s \o r.s))
      [] op = "Gt" /\ l.t = "Number" /\ r.t = "Number" ->
            Ok(IF NumGt(l.n, r.n) THEN Bool ELSE Ala)
      [] op = "Lt" /\ l.t = "Number" /\ r.t = "Number" ->
            Ok(IF NumLt(l.n, r.n) THEN Bool ELSE Ala)
      [] op = "Eq" -> Ok(IF ValEq(l, r) THEN Bool ELSE Ala)
      [] OTHER -> Err(TypeError("compatible types",
                                type_name(l) \o " and " \o type_name(r)))

\* ControlFlow
None ==
    [ret |-> FALSE]

Return(v) ==
    [ret |-> TRUE, v |-> v]

(***************************************************************************)
(* The programs run.  Each family is what parse gives for the source text  *)
(* in its comment; the parameters range over the sets named beside it.     *)
(***************************************************************************)
Id(c) ==
    << c >>

Lit(i) ==
    ENumber(Num(i))

\* "text" without interpolation
Quoted(s) ==
    ETemplateString(IF s = << >> THEN << >> ELSE << Literal(s) >>)

\* ilo f li pali e (..) la open pana e y pini, then a call of f from a place
\* where y is bound as `where` says.
ScopeProgram(where) ==
    CASE where = "callerLocal" ->
            << SFuncDef(Id("f"), << >>, << SReturn(EVar(Id("y"))) >>),
               SIf(EBool(TRUE),
                   << SAssign(Id("y"), Lit(7)), SReturn(EFuncCall(Id("f"), << >>)) >>,
                   << >>) >>
      [] where = "callerFunction" ->
            << SFuncDef(Id("f"), << >>, << SReturn(EVar(Id("y"))) >>),
               SFuncDef(Id("g"), << >>,
                   << SAssign(Id("y"), Lit(7)), SReturn(EFuncCall(Id("f"), << >>)) >>),
               SReturn(EFuncCall(Id("g"), << >>)) >>
      [] where = "global" ->
            << SFuncDef(Id("f"), << >>, << SReturn(EVar(Id("y"))) >>),
               SAssign(Id("y"), Lit(7)),
               SIf(EBool(TRUE), << SReturn(EFuncCall(Id("f"), << >>)) >>, << >>) >>
      [] where = "param" ->
            << SFuncDef(Id("f"), << Id("y") >>, << SReturn(EVar(Id("y"))) >>),
               SIf(EBool(TRUE),
                   << SAssign(Id("y"), Lit(7)),
                      SReturn(EFuncCall(Id("f"), << Lit(8) >>)) >>,
                   << >>) >>
      [] where = "ownLocal" ->
            << SFuncDef(Id("f"), << >>,
                   << SAssign(Id("y"), Lit(3)), SReturn(EVar(Id("y"))) >>),
               SIf(EBool(TRUE),
                   << SAssign(Id("y"), Lit(7)), SReturn(EFuncCall(Id("f"), << >>)) >>,
                   << >>) >>
      [] where = "nowhere" ->
            << SFuncDef(Id("f"), << >>, << SReturn(EVar(Id("y"))) >>),
               SReturn(EFuncCall(Id("f"), << >>)) >>

Wheres ==
    { "callerLocal", "callerFunction", "global", "param", "ownLocal", "nowhere" }

ScopePrograms ==
    { ScopeProgram(where) : where \in Wheres }

\* A user binding of a stdlib name, made as `how` says, then
\* pana e kulupu_len e (kulupu_sin e (1, 2)).
ShadowCall ==
    SReturn(EFuncCall(kulupu_len, << EFuncCall(kulupu_sin, << Lit(1), Lit(2) >>) >>))

ShadowProgram(how) ==
    CASE how = "funcdef" ->
            << SFuncDef(kulupu_len, << Id("a") >>, << SReturn(Lit(99)) >>), ShadowCall >>
      [] how = "assign" ->
            << SAssign(kulupu_len, Lit(5)), ShadowCall >>
      [] how = "block" ->
            << SIf(EBool(TRUE),
                   << SFuncDef(kulupu_len, << Id("a") >>, << SReturn(Lit(99)) >>),
                      ShadowCall >>,
                   << >>) >>
      [] how = "inFunction" ->
            << SFuncDef(kulupu_len, << Id("a") >>, << SReturn(Lit(99)) >>),
               SFuncDef(Id("g"), << Id("x") >>,
                   << SReturn(EFuncCall(kulupu_len, << EVar(Id("x")) >>)) >>),
               SReturn(EFuncCall(Id("g"), << EFuncCall(kulupu_sin, << Lit(1), Lit(2) >>) >>)) >>
      [] how = "none" ->
            << ShadowCall >>

Hows ==
    { "funcdef", "assign", "block", "inFunction", "none" }

ShadowPrograms ==
    { ShadowProgram(how) : how \in Hows }

\* pana e a WORD b
CompareProgram(a, word, b) ==
    << SReturn(parse_comparison(Lit(a), word, Lit(b))) >>

MaxOperand ==
    2

Operands ==
    0..MaxOperand

CompareWords ==
    { "suli", "lili", "suli_sama", "lili_sama", "sama" }

ComparePrograms ==
    { CompareProgram(a, word, b) : a \in Operands, word \in CompareWords, b \in Operands }

Toki(s) ==
    SExpr(EFuncCall(toki, << Quoted(s) >>))

\* stmt inside depth nested blocks: a then-branch at odd depths, a while
\* body at even depths.
RECURSIVE Nest(_, _)
Nest(depth, stmt) ==
    IF depth = 0 THEN stmt
    ELSE IF depth % 2 = 1 THEN SIf(EBool(TRUE), << Nest(depth - 1, stmt) >>, << >>)
    ELSE SWhile(EBool(TRUE), << Nest(depth - 1, stmt), Toki(<< "w" >>) >>)

MaxNest ==
    3

\* ilo f li pali e () la open <pana e 5, nested> toki e ("b") pini
\* pana e f e ()
ReturnProgram(depth) ==
    << SFuncDef(Id("f"), << >>, << Nest(depth, SReturn(Lit(5))), Toki(<< "b" >>) >>),
       SReturn(EFuncCall(Id("f"), << >>)) >>

\* ilo f li pali e (n) la open
\*   wile lon la open  n la open pana e 5 pini  toki e ("a")  n li jo e 1 pini
\*   toki e ("b") pini
\* pana e f e (n0)
LoopReturnProgram(n0) ==
    << SFuncDef(Id("f"), << Id("n") >>,
           << SWhile(EBool(TRUE),
                  << SIf(EVar(Id("n")), << SReturn(Lit(5)) >>, << >>),
                     Toki(<< "a" >>),
                     SAssign(Id("n"), Lit(1)) >>),
              Toki(<< "b" >>) >>),
       SReturn(EFuncCall(Id("f"), << Lit(n0) >>)) >>

\* A body that ends without Return: empty, an assignment, or an if whose
\* condition is false.
FallBodies ==
    { << >>,
      << SAssign(Id("z"), Lit(1)) >>,
      << SIf(EBool(FALSE), << SReturn(Lit(5)) >>, << >>), Toki(<< "b" >>) >> }

FallProgram(body) ==
    << SFuncDef(Id("f"), << >>, body), SReturn(EFuncCall(Id("f"), << >>)) >>

ReturnPrograms ==
    { ReturnProgram(depth) : depth \in 0..MaxNest }
        \cup { LoopReturnProgram(n0) : n0 \in 0..1 }
        \cup { FallProgram(body) : body \in FallBodies }

\* ilo f li pali e (a) la open
\*   y li jo e 3   lon la open z li jo e 4  <how the body ends>  pini
\* pini
\* lon la open  y li jo e 7   r li jo e f e (1)   pana e y  pini
RestoreProgram(outcome) ==
    LET last == CASE outcome = "return" -> << SReturn(Lit(5)) >>
                  [] outcome = "fall" -> << >>
                  [] outcome = "error" -> << SReturn(EBinary(Lit(1), "Div", Lit(0))) >>
    IN  << SFuncDef(Id("f"), << Id("a") >>,
               << SAssign(Id("y"), Lit(3)),
                  SIf(EBool(TRUE), << SAssign(Id("z"), Lit(4)) >> \o last, << >>) >>),
           SIf(EBool(TRUE),
               << SAssign(Id("y"), Lit(7)),
                  SAssign(Id("r"), EFuncCall(Id("f"), << Lit(1) >>)),
                  SReturn(EVar(Id("y"))) >>,
               << >>) >>

Outcomes ==
    { "return", "fall", "error" }

RestorePrograms ==
    { RestoreProgram(outcome) : outcome \in Outcomes }

\* ilo f li pali e (a, b) la open pana e a pini
\* g li jo e 5
\* lon la open  y li jo e 7   pana e <a call that fails as `fault` says>  pini
CallOf(fault) ==
    CASE fault = "lookup" -> EFuncCall(Id("h"), << EFuncCall(toki, << Quoted(<< "a" >>) >>) >>)
      [] fault = "variant" -> EFuncCall(Id("g"), << EFuncCall(toki, << Quoted(<< "a" >>) >>) >>)
      [] fault = "arity" -> EFuncCall(Id("f"), << EFuncCall(toki, << Quoted(<< "a" >>) >>) >>)
      [] fault = "argument" ->
            EFuncCall(Id("f"), << EFuncCall(toki, << Quoted(<< "a" >>) >>),
                                  EBinary(Lit(1), "Div", Lit(0)) >>)
      [] fault = "none" ->
            EFuncCall(Id("f"), << EVar(Id("y")),
                                  EFuncCall(toki, << Quoted(<< "a" >>) >>) >>)

CallProgram(fault) ==
    << SFuncDef(Id("f"), << Id("a"), Id("b") >>, << SReturn(EVar(Id("a"))) >>),
       SAssign(Id("g"), Lit(5)),
       SIf(EBool(TRUE), << SAssign(Id("y"), Lit(7)), SReturn(CallOf(fault)) >>, << >>) >>

Faults ==
    { "lookup", "variant", "arity", "argument", "none" }

CallPrograms ==
    { CallProgram(fault) : fault \in Faults }

\* Assignments to x where x is bound as `bound` says:
\*   "shadowed"  x in the global frame and as a parameter of the running f
\*   "outer"     x in the global frame, assigned inside a block
\*   "middle"    x in a block, assigned inside a block of that block
\*   "nowhere"   x in no frame, assigned inside a block
SetProgram(bound) ==
    CASE bound = "shadowed" ->
            << SAssign(Id("x"), Lit(1)),
               SFuncDef(Id("f"), << Id("x") >>,
                   << SAssign(Id("x"), Lit(2)), SReturn(EVar(Id("x"))) >>),
               SReturn(EBinary(EFuncCall(Id("f"), << Lit(5) >>), "Mul", Lit(10))) >>
      [] bound = "outer" ->
            << SAssign(Id("x"), Lit(1)),
               SIf(EBool(TRUE), << SAssign(Id("y"), Lit(9)), SAssign(Id("x"), Lit(2)) >>,
                   << >>),
               SReturn(EVar(Id("x"))) >>
      [] bound = "middle" ->
            << SAssign(Id("y"), Lit(9)),
               SIf(EBool(TRUE),
                   << SAssign(Id("x"), Lit(1)),
                      SIf(EBool(TRUE),
                          << SAssign(Id("z"), Lit(8)), SAssign(Id("x"), Lit(2)) >>, << >>),
                      SReturn(EVar(Id("x"))) >>,
                   << >>) >>
      [] bound = "nowhere" ->
            << SAssign(Id("y"), Lit(9)),
               SIf(EBool(TRUE), << SAssign(Id("x"), Lit(2)), SReturn(EVar(Id("x"))) >>,
                   << >>) >>

Places ==
    { "shadowed", "outer", "middle", "nowhere" }

SetPrograms ==
    { SetProgram(bound) : bound \in Places }

\* ilo p li pali e (s, v) la open toki e (s) pana e v pini
\* pana e <left> <op> <right>, where an operand p e ("l", v) prints its
\* side and gives v, and the operand u reads a name bound nowhere.
Operand(side, v) ==
    EFuncCall(Id("p"), << Quoted(<< side >>), v >>)

BinaryOf(case) ==
    CASE case = "leftFails" -> EBinary(EVar(Id("u")), "Add", Operand("r", Lit(1)))
      [] case = "rightFails" -> EBinary(Operand("l", EBool(FALSE)), "Add", EVar(Id("u")))
      [] case = "TypeError" -> EBinary(Operand("l", EBool(FALSE)), "Add", Operand("r", Lit(1)))
      [] case = "DivisionByZero" -> EBinary(Operand("l", Lit(1)), "Div", Operand("r", Lit(0)))
      [] case = "value" -> EBinary(Operand("l", Lit(1)), "Add", Operand("r", Lit(2)))

BinaryProgram(case) ==
    << SFuncDef(Id("p"), << Id("s"), Id("v") >>,
           << SExpr(EFuncCall(toki, << EVar(Id("s")) >>)), SReturn(EVar(Id("v"))) >>),
       SReturn(BinaryOf(case)) >>

BinaryCases ==
    { "leftFails", "rightFails", "TypeError", "DivisionByZero", "value" }

BinaryPrograms ==
    { BinaryProgram(case) : case \in BinaryCases }

\* x li jo e 1
\* ilo f li pali e (a) la open  <a statement with the effect>  pana e x  pini
\* lon la open  y li jo e 7   r li jo e f e (y)  pini
\* pana e x
DefineX ==
    SFuncDef(Id("x"), << >>, << SReturn(Lit(0)) >>)

EffectOf(effect) ==
    CASE effect = "global" -> SAssign(Id("x"), Lit(2))
      [] effect = "callerLocal" -> SAssign(Id("y"), Lit(2))
      [] effect = "parameter" -> SAssign(Id("a"), Lit(2))
      [] effect = "function" -> DefineX

EffectBody(effect) ==
    << EffectOf(effect), SReturn(EVar(Id("x"))) >>

EffectProgram(effect) ==
    << SAssign(Id("x"), Lit(1)),
       SFuncDef(Id("f"), << Id("a") >>, EffectBody(effect)),
       SIf(EBool(TRUE),
           << SAssign(Id("y"), Lit(7)),
              SAssign(Id("r"), EFuncCall(Id("f"), << EVar(Id("y")) >>)) >>,
           << >>),
       SReturn(EVar(Id("x"))) >>

Effects ==
    { "global", "callerLocal", "parameter", "function" }

EffectPrograms ==
    { EffectProgram(effect) : effect \in Effects }

\* Programs that bind t inside a block and read it later:
\*   "if"        lon la open t li jo e 5 pini   pana e t
\*   "FuncDef"   lon la open ilo t li pali e () la open pana e 5 pini pini   pana e t
\*   "while"     i li jo e 0   wile i lili 1 la open t li jo e 5  i li jo e i + 1 pini
\*               pana e t
\*   "iteration" i li jo e 0
\*               wile i lili 2 la open
\*                 i sama 1 la open pana e t pini   t li jo e 5   i li jo e i + 1
\*               pini
\* and one that assigns inside a block to a name bound outside:
\*   "enclosing" x li jo e 1   lon la open t li jo e 5  x li jo e 2 pini   pana e x
Step ==
    SAssign(Id("i"), EBinary(EVar(Id("i")), "Add", Lit(1)))

BlockProgram(kind) ==
    CASE kind = "if" ->
            << SIf(EBool(TRUE), << SAssign(Id("t"), Lit(5)) >>, << >>),
               SReturn(EVar(Id("t"))) >>
      [] kind = "FuncDef" ->
            << SIf(EBool(TRUE),
                   << SFuncDef(Id("t"), << >>, << SReturn(Lit(5)) >>) >>, << >>),
               SReturn(EVar(Id("t"))) >>
      [] kind = "while" ->
            << SAssign(Id("i"), Lit(0)),
               SWhile(EBinary(EVar(Id("i")), "Lt", Lit(1)),
                      << SAssign(Id("t"), Lit(5)), Step >>),
               SReturn(EVar(Id("t"))) >>
      [] kind = "iteration" ->
            << SAssign(Id("i"), Lit(0)),
               SWhile(EBinary(EVar(Id("i")), "Lt", Lit(2)),
                      << SIf(EBinary(EVar(Id("i")), "Eq", Lit(1)),
                             << SReturn(EVar(Id("t"))) >>, << >>),
                         SAssign(Id("t"), Lit(5)),
                         Step >>) >>
      [] kind = "enclosing" ->
            << SAssign(Id("x"), Lit(1)),
               SIf(EBool(TRUE), << SAssign(Id("t"), Lit(5)), SAssign(Id("x"), Lit(2)) >>,
                   << >>),
               SReturn(EVar(Id("x"))) >>

BlockKinds ==
    { "if", "FuncDef", "while", "iteration", "enclosing" }

BlockPrograms ==
    { BlockProgram(kind) : kind \in BlockKinds }

\* ilo t li pali e (n) la open  n la open pana e t e (0) pini  pana e 5  pini
\* defined and called as `shape` says:
\*   "defining"         in a block, t e (0) called in that block
\*   "recursive"        in a block, t e (1) called in that block
\*   "other"            in a block, with g that calls t e (0); g e () called in that block
\*   "parameter"        in a block, and passed to the global g, which calls its parameter
\*   "inBody"           in the body of the global g, which calls t e (0)
\*   "inBodyRecursive"  in the body of the global g, which calls t e (1)
\*   "global"           in the global frame, after g, which calls t e (1)
DefT ==
    SFuncDef(Id("t"), << Id("n") >>,
        << SIf(EVar(Id("n")), << SReturn(EFuncCall(Id("t"), << Lit(0) >>)) >>, << >>),
           SReturn(Lit(5)) >>)

CallT(n) ==
    SReturn(EFuncCall(Id("t"), << Lit(n) >>))

InBlock(block) ==
    SIf(EBool(TRUE), block, << >>)

NestedDefProgram(shape) ==
    CASE shape = "defining" -> << InBlock(<< DefT, CallT(0) >>) >>
      [] shape = "recursive" -> << InBlock(<< DefT, CallT(1) >>) >>
      [] shape = "other" ->
            << InBlock(<< DefT, SFuncDef(Id("g"), << >>, << CallT(0) >>),
                          SReturn(EFuncCall(Id("g"), << >>)) >>) >>
      [] shape = "parameter" ->
            << SFuncDef(Id("g"), << Id("t") >>, << CallT(0) >>),
               InBlock(<< DefT, SReturn(EFuncCall(Id("g"), << EVar(Id("t")) >>)) >>) >>
      [] shape = "inBody" ->
            << SFuncDef(Id("g"), << >>, << DefT, CallT(0) >>),
               SReturn(EFuncCall(Id("g"), << >>)) >>
      [] shape = "inBodyRecursive" ->
            << SFuncDef(Id("g"), << >>, << DefT, CallT(1) >>),
               SReturn(EFuncCall(Id("g"), << >>)) >>
      [] shape = "global" ->
            << SFuncDef(Id("g"), << >>, << CallT(1) >>),
               DefT,
               SReturn(EFuncCall(Id("g"), << >>)) >>

Shapes ==
    { "defining", "recursive", "other", "parameter", "inBody", "inBodyRecursive",
      "global" }

NestedDefPrograms ==
    { NestedDefProgram(shape) : shape \in Shapes }

\* Top-level programs, each toki e ("a") .. toki e ("z") around a statement
\* inside depth nested top-level blocks:
\*   "Return"  pana e 5                    then toki e ("z")
\*   "error"   u  (bound nowhere)          then pana e 1 / 0
\* and two that execute no top-level Return and raise no error:
\*   "skipped"  ala la open pana e 5 pini  then toki e ("z")
\*   "callee"   ilo f li pali e () la open pana e 5 pini   f e ()   then toki e ("z")
TopProgram(ending, depth) ==
    CASE ending = "Return" ->
            << Toki(<< "a" >>), Nest(depth, SReturn(Lit(5))), Toki(<< "z" >>) >>
      [] ending = "error" ->
            << Toki(<< "a" >>), Nest(depth, SExpr(EVar(Id("u")))),
               SReturn(EBinary(Lit(1), "Div", Lit(0))) >>
      [] ending = "skipped" ->
            << Toki(<< "a" >>), SIf(EBool(FALSE), << SReturn(Lit(5)) >>, << >>),
               Toki(<< "z" >>) >>
      [] ending = "callee" ->
            << Toki(<< "a" >>), SFuncDef(Id("f"), << >>, << SReturn(Lit(5)) >>),
               SExpr(EFuncCall(Id("f"), << >>)), Toki(<< "z" >>) >>

Endings ==
    { "Return", "error", "skipped", "callee" }

TopPrograms ==
    { TopProgram(ending, depth) : ending \in Endings, depth \in 0..MaxNest }

\* kulupu_sin e (1, .., len)
MaxLen ==
    2

ListOf(len) ==
    EFuncCall(kulupu_sin, [j \in 1..len |-> Lit(j)])

MaxIndex ==
    3

\* l li jo e kulupu_sin e (1, 2)   a li jo e l   r li jo e <update of l>
ListUpdates ==
    { EFuncCall(kulupu_lon, << EVar(Id("l")), Lit(i), Lit(9) >>) : i \in 0..MaxIndex }
        \cup { EFuncCall(kulupu_aksen, << EVar(Id("l")), Lit(9) >>),
               EFuncCall(kulupu_lon, << EVar(Id("l")), Lit(-1), Lit(9) >>) }

ListUpdateProgram(update) ==
    << SAssign(Id("l"), ListOf(MaxLen)),
       SAssign(Id("a"), EVar(Id("l"))),
       SAssign(Id("r"), update) >>

\* m li jo e nasin_lon e (nasin_sin e (), "k", 1)   a li jo e m
\* r li jo e <update of m>
MapUpdates ==
    { EFuncCall(nasin_lon, << EVar(Id("m")), Quoted(<< "k" >>), Lit(9) >>),
      EFuncCall(nasin_lon, << EVar(Id("m")), Quoted(<< "j" >>), Lit(9) >>),
      EFuncCall(nasin_lon, << EVar(Id("m")), Lit(0), Lit(9) >>) }

MapUpdateProgram(update) ==
    << SAssign(Id("m"),
           EFuncCall(nasin_lon, << EFuncCall(nasin_sin, << >>), Quoted(<< "k" >>), Lit(1) >>)),
       SAssign(Id("a"), EVar(Id("m"))),
       SAssign(Id("r"), update) >>

UpdatePrograms ==
    { ListUpdateProgram(update) : update \in ListUpdates }
        \cup { MapUpdateProgram(update) : update \in MapUpdates }

\* pana e kulupu_ken e (kulupu_sin e (1, .., len), i)
KenProgram(len, i) ==
    << SReturn(EFuncCall(kulupu_ken, << ListOf(len), Lit(i) >>)) >>

\* pana e kulupu_lon e (kulupu_sin e (1, .., len), i, lon)
LonProgram(len, i) ==
    << SReturn(EFuncCall(kulupu_lon, << ListOf(len), Lit(i), EBool(TRUE) >>)) >>

IndexPrograms ==
    { KenProgram(len, i) : len \in 0..MaxLen, i \in 0..MaxIndex }
        \cup { LonProgram(len, i) : len \in 0..MaxLen, i \in 0..MaxIndex }

\* toki e (nasin_lon e (nasin_lon e (nasin_sin e (), k1, 1), k2, 2))
Keys ==
    { << "a" >>, << "a", "1" >>, << "a", "b" >>, << "b" >>, << "a", " " >>, << >> }

DisplayProgram(k1, k2) ==
    << SExpr(EFuncCall(toki,
           << EFuncCall(nasin_lon,
                  << EFuncCall(nasin_lon, << EFuncCall(nasin_sin, << >>), Quoted(k1), Lit(1) >>),
                     Quoted(k2), Lit(2) >>) >>)) >>

DisplayPrograms ==
    { DisplayProgram(k1, k2) : k1 \in Keys, k2 \in Keys }

\* x li jo e nanpa_sin e ("text")
\* x la open pana e 1 pini taso open pana e 0 pini       (the If form)
\* wile x la open pana e 1 pini   pana e 0                (the While form)
NumberTexts ==
    { << "0" >>, << "2" >>, << "-", "1" >>, << "0", ".", "5" >>, << "-", "0" >>,
      << "i", "n", "f" >>, << "-", "i", "n", "f" >>, << "N", "a", "N" >> }

TruthyProgram(text, form) ==
    << SAssign(Id("x"), EFuncCall(nanpa_sin, << Quoted(text) >>)) >>
        \o (IF form = "If"
            THEN << SIf(EVar(Id("x")), << SReturn(Lit(1)) >>, << << SReturn(Lit(0)) >> >>) >>
            ELSE << SWhile(EVar(Id("x")), << SReturn(Lit(1)) >>), SReturn(Lit(0)) >>)

TruthyPrograms ==
    { TruthyProgram(text, form) : text \in NumberTexts, form \in {"If", "While"} }

\* x li jo e 2   wile x la open toki e ("x={x}")  x li jo e x + -1 pini
\* pana e -x
CountdownProgram ==
    << SAssign(Id("x"), Lit(2)),
       SWhile(EVar(Id("x")),
           << SExpr(EFuncCall(toki,
                  << ETemplateString(<< Literal(<< "x", ":" >>),
                                        Interpolation(EVar(Id("x"))) >>) >>)),
              SAssign(Id("x"), EBinary(EVar(Id("x")), "Add", ENeg(Lit(1)))) >>),
       SReturn(ENeg(EVar(Id("x")))) >>

\* ilo f li pali e (a) la open <first> pana e f e (a) pini   pana e f e (1)
\* Unbounded direct recursion; `first` is what the body does before the
\* recursive call: nothing, or kulupu_sin e (a).
RecurseProgram(first) ==
    << SFuncDef(Id("f"), << Id("a") >>,
           first \o << SReturn(EFuncCall(Id("f"), << EVar(Id("a")) >>)) >>),
       SReturn(EFuncCall(Id("f"), << Lit(1) >>)) >>

\* ilo f li pali e (n) la open
\*   n la open pana e f e (n - 1) pini
\*   pana e g e (z) pini
\* pana e f e (n0)
\* n0 + 1 calls of f are active when g, which is bound nowhere, is called
\* with an argument that is bound nowhere.
DescendProgram(n0) ==
    << SFuncDef(Id("f"), << Id("n") >>,
           << SIf(EVar(Id("n")),
                  << SReturn(EFuncCall(Id("f"),
                         << EBinary(EVar(Id("n")), "Sub", Lit(1)) >>)) >>,
                  << >>),
              SReturn(EFuncCall(Id("g"), << EVar(Id("z")) >>)) >>),
       SReturn(EFuncCall(Id("f"), << Lit(n0) >>)) >>

RecursePrograms ==
    { RecurseProgram(first) :
        first \in { << >>, << SExpr(EFuncCall(kulupu_sin, << EVar(Id("a")) >>)) >> } }
        \cup { DescendProgram(MAX_CALL_DEPTH - 1) }

Programs ==
    ScopePrograms \cup ShadowPrograms \cup ComparePrograms \cup ReturnPrograms
        \cup UpdatePrograms \cup IndexPrograms \cup DisplayPrograms \cup TruthyPrograms
        \cup { CountdownProgram } \cup RestorePrograms \cup CallPrograms
        \cup SetPrograms \cup BinaryPrograms \cup EffectPrograms \cup BlockPrograms
        \cup NestedDefPrograms \cup TopPrograms

\* ---- the machine ----
vars ==
    << program, ctl, kont, env, call_depth, out >>

Top ==
    kont[Len(kont)]

Pop ==
    SubSeq(kont, 1, Len(kont) - 1)

Push(frame) ==
    Append(kont, frame)

Waiting(kind) ==
    kont # << >> /\ Top.k = kind

\* Interpreter::new, then run(program) is entered.
InitWith(programs) ==
    /\ program \in programs
    /\ ctl = [op |-> "run", stmts |-> program]
    /\ kont = << >>
    /\ env = << EmptyMap >>
    /\ call_depth = 0
    /\ out = << >>

\* ---- run ----
\* run: the for loop takes the next statement, or ends with Ok(Ala).
RunNext ==
    /\ ctl.op = "run"
    /\ IF ctl.stmts = << >>
       THEN ctl' = [op |-> "done", r |-> Ok(Ala)] /\ kont' = kont
       ELSE /\ ctl' = [op |-> "stmt", stmt |-> Head(ctl.stmts)]
            /\ kont' = Push([k |-> "run", rest |-> Tail(ctl.stmts)])
    /\ UNCHANGED << program, env, call_depth, out >>

\* A faulty run: `self.exec_stmt(stmt)?;` with the ControlFlow dropped, so
\* that a Return at top level does not end the run.
RunStmtIgnoringReturn ==
    /\ Waiting("run")
    /\ ctl.op \in {"cf", "err"}
    /\ ctl' = CASE ctl.op = "err" -> [op |-> "done", r |-> Err(ctl.e)]
                [] OTHER -> [op |-> "run", stmts |-> Top.rest]
    /\ kont' = Pop
    /\ UNCHANGED << program, env, call_depth, out >>

\* run: exec_stmt(stmt)? returned; Return(v) ends the run, an error too.
RunStmt ==
    /\ Waiting("run")
    /\ ctl.op \in {"cf", "err"}
    /\ ctl' = CASE ctl.op = "err" -> [op |-> "done", r |-> Err(ctl.e)]
                [] ctl.cf.ret -> [op |-> "done", r |-> Ok(ctl.cf.v)]
                [] OTHER -> [op |-> "run", stmts |-> Top.rest]
    /\ kont' = Pop
    /\ UNCHANGED << program, env, call_depth, out >>

\* ---- exec_stmt ----
ExecAssign ==
    /\ ctl.op = "stmt" /\ ctl.stmt.s = "Assign"
    /\ ctl' = [op |-> "expr", expr |-> ctl.stmt.value]
    /\ kont' = Push([k |-> "Assign", target |-> ctl.stmt.target])
    /\ UNCHANGED << program, env, call_depth, out >>

AssignSet ==
    /\ Waiting("Assign") /\ ctl.op = "val"
    /\ env' = set(env, Top.target, ctl.v)
    /\ ctl' = [op |-> "cf", cf |-> None]
    /\ kont' = Pop
    /\ UNCHANGED << program, call_depth, out >>

ExecIf ==
    /\ ctl.op = "stmt" /\ ctl.stmt.s = "If"
    /\ ctl' = [op |-> "expr", expr |-> ctl.stmt.cond]
    /\ kont' = Push([k |-> "If", then_block |-> ctl.stmt.then_block,
                     else_block |-> ctl.stmt.else_block])
    /\ UNCHANGED << program, env, call_depth, out >>

IfBranch ==
    /\ Waiting("If") /\ ctl.op = "val"
    /\ ctl' = CASE is_truthy(ctl.v) -> [op |-> "block", block |-> Top.then_block]
                [] Top.else_block # << >> -> [op |-> "block", block |-> Top.else_block[1]]
                [] OTHER -> [op |-> "cf", cf |-> None]
    /\ kont' = Pop
    /\ UNCHANGED << program, env, call_depth, out >>

\* Stmt::While: `let mut iterations = 0`, then the condition is evaluated.
ExecWhile ==
    /\ ctl.op = "stmt" /\ ctl.stmt.s = "While"
    /\ ctl' = [op |-> "expr", expr |-> ctl.stmt.cond]
    /\ kont' = Push([k |-> "While", cond |-> ctl.stmt.cond, body |-> ctl.stmt.body,
                     iterations |-> 0])
    /\ UNCHANGED << program, env, call_depth, out >>

\* A faulty While arm: the iterations are counted but never compared.
WhileCondUncapped ==
    /\ Waiting("While") /\ ctl.op = "val"
    /\ IF ~is_truthy(ctl.v)
       THEN ctl' = [op |-> "cf", cf |-> None] /\ kont' = Pop
       ELSE /\ ctl' = [op |-> "block", block |-> Top.body]
            /\ kont' = [kont EXCEPT ![Len(kont)].iterations = @ + 1]
    /\ UNCHANGED << program, env, call_depth, out >>

\* A faulty While arm: `>=` for `>`, the cap one iteration too early.
WhileCondCappingEarly ==
    /\ Waiting("While") /\ ctl.op = "val"
    /\ IF ~is_truthy(ctl.v)
       THEN ctl' = [op |-> "cf", cf |-> None] /\ kont' = Pop
       ELSE IF Top.iterations + 1 >= MAX_LOOP_ITERATIONS
       THEN ctl' = [op |-> "err", e |-> InfiniteLoop] /\ kont' = Pop
       ELSE /\ ctl' = [op |-> "block", block |-> Top.body]
            /\ kont' = [kont EXCEPT ![Len(kont)].iterations = @ + 1]
    /\ UNCHANGED << program, env, call_depth, out >>

\* The condition's value: leave the loop, raise InfiniteLoop, or run the body.
WhileCond ==
    /\ Waiting("While") /\ ctl.op = "val"
    /\ IF ~is_truthy(ctl.v)
       THEN ctl' = [op |-> "cf", cf |-> None] /\ kont' = Pop
       ELSE IF Top.iterations + 1 > MAX_LOOP_ITERATIONS
       THEN ctl' = [op |-> "err", e |-> InfiniteLoop] /\ kont' = Pop
       ELSE /\ ctl' = [op |-> "block", block |-> Top.body]
            /\ kont' = [kont EXCEPT ![Len(kont)].iterations = @ + 1]
    /\ UNCHANGED << program, env, call_depth, out >>

\* exec_block(body)? returned Ok: Return leaves the loop, None goes round.
WhileBody ==
    /\ Waiting("While") /\ ctl.op = "cf"
    /\ IF ctl.cf.ret
       THEN ctl' = ctl /\ kont' = Pop
       ELSE ctl' = [op |-> "expr", expr |-> Top.cond] /\ kont' = kont
    /\ UNCHANGED << program, env, call_depth, out >>

ExecFuncDef ==
    /\ ctl.op = "stmt" /\ ctl.stmt.s = "FuncDef"
    /\ env' = define(env, ctl.stmt.name, Function(ctl.stmt.params, ctl.stmt.body))
    /\ ctl' = [op |-> "cf", cf |-> None]
    /\ UNCHANGED << program, kont, call_depth, out >>

ExecReturn ==
    /\ ctl.op = "stmt" /\ ctl.stmt.s = "Return"
    /\ ctl' = [op |-> "expr", expr |-> ctl.stmt.expr]
    /\ kont' = Push([k |-> "Return"])
    /\ UNCHANGED << program, env, call_depth, out >>

ReturnValue ==
    /\ Waiting("Return") /\ ctl.op = "val"
    /\ ctl' = [op |-> "cf", cf |-> Return(ctl.v)]
    /\ kont' = Pop
    /\ UNCHANGED << program, env, call_depth, out >>

ExecExpr ==
    /\ ctl.op = "stmt" /\ ctl.stmt.s = "Expr"
    /\ ctl' = [op |-> "expr", expr |-> ctl.stmt.expr]
    /\ kont' = Push([k |-> "Expr"])
    /\ UNCHANGED << program, env, call_depth, out >>

ExprDiscard ==
    /\ Waiting("Expr") /\ ctl.op = "val"
    /\ ctl' = [op |-> "cf", cf |-> None]
    /\ kont' = Pop
    /\ UNCHANGED << program, env, call_depth, out >>

\* ---- exec_block ----
\* exec_block: push_scope, then exec_block_in_current_scope(block).
ExecBlock ==
    /\ ctl.op = "block"
    /\ env' = push_scope(env)
    /\ ctl' = [op |-> "seq", stmts |-> ctl.block]
    /\ kont' = Push([k |-> "block"])
    /\ UNCHANGED << program, call_depth, out >>

\* A faulty exec_block: `?` on the block's result, so that an error leaves
\* before pop_scope.
BlockExitPoppingOnOk ==
    /\ Waiting("block") /\ ctl.op \in {"cf", "err"}
    /\ env' = IF ctl.op = "err" THEN env ELSE pop_scope(env)
    /\ kont' = Pop
    /\ UNCHANGED << program, ctl, call_depth, out >>

\* exec_block: pop_scope, whatever the result, and hand the result on.
BlockExit ==
    /\ Waiting("block") /\ ctl.op \in {"cf", "err"}
    /\ env' = pop_scope(env)
    /\ kont' = Pop
    /\ UNCHANGED << program, ctl, call_depth, out >>

\* exec_block_in_current_scope: the next statement, or Ok(None) at the end.
SeqNext ==
    /\ ctl.op = "seq"
    /\ IF ctl.stmts = << >>
       THEN ctl' = [op |-> "cf", cf |-> None] /\ kont' = kont
       ELSE /\ ctl' = [op |-> "stmt", stmt |-> Head(ctl.stmts)]
            /\ kont' = Push([k |-> "seq", rest |-> Tail(ctl.stmts)])
    /\ UNCHANGED << program, env, call_depth, out >>

\* A faulty exec_block_in_current_scope: the ControlFlow of a statement is
\* dropped and the next statement runs.
SeqStmtDroppingReturn ==
    /\ Waiting("seq") /\ ctl.op = "cf"
    /\ ctl' = [op |-> "seq", stmts |-> Top.rest]
    /\ kont' = Pop
    /\ UNCHANGED << program, env, call_depth, out >>

\* exec_block_in_current_scope: exec_stmt(stmt)? returned Ok.
SeqStmt ==
    /\ Waiting("seq") /\ ctl.op = "cf"
    /\ ctl' = IF ctl.cf.ret THEN ctl ELSE [op |-> "seq", stmts |-> Top.rest]
    /\ kont' = Pop
    /\ UNCHANGED << program, env, call_depth, out >>

\* ---- eval_expr ----
EvalNumber ==
    /\ ctl.op = "expr" /\ ctl.expr.e = "Number"
    /\ ctl' = [op |-> "val", v |-> Number(ctl.expr.n)]
    /\ UNCHANGED << program, kont, env, call_depth, out >>

EvalBool ==
    /\ ctl.op = "expr" /\ ctl.expr.e = "Bool"
    /\ ctl' = [op |-> "val", v |-> IF ctl.expr.b THEN Bool ELSE Ala]
    /\ UNCHANGED << program, kont, env, call_depth, out >>

EvalVar ==
    /\ ctl.op = "expr" /\ ctl.expr.e = "Var"
    /\ ctl' = IF get(env, ctl.expr.name).ok
              THEN [op |-> "val", v |-> get(env, ctl.expr.name).v]
              ELSE [op |-> "err", e |-> UndefinedVariable(ctl.expr.name)]
    /\ UNCHANGED << program, kont, env, call_depth, out >>

EvalNeg ==
    /\ ctl.op = "expr" /\ ctl.expr.e = "Neg"
    /\ ctl' = [op |-> "expr", expr |-> ctl.expr.inner]
    /\ kont' = Push([k |-> "Neg"])
    /\ UNCHANGED << program, env, call_depth, out >>

NegValue ==
    /\ Waiting("Neg") /\ ctl.op = "val"
    /\ ctl' = IF ctl.v.t = "Number"
              THEN [op |-> "val", v |-> Number(NumNeg(ctl.v.n))]
              ELSE [op |-> "err", e |-> TypeError("nanpa", type_name(ctl.v))]
    /\ kont' = Pop
    /\ UNCHANGED << program, env, call_depth, out >>

\* eval_template_string: `result` starts empty, the parts are taken in order.
EvalTemplateString ==
    /\ ctl.op = "expr" /\ ctl.expr.e = "TemplateString"
    /\ ctl' = [op |-> "tmpl", parts |-> ctl.expr.parts, result |-> << >>]
    /\ UNCHANGED << program, kont, env, call_depth, out >>

TemplateNext ==
    /\ ctl.op = "tmpl"
    /\ IF ctl.parts = << >>
       THEN ctl' = [op |-> "val", v |-> String(ctl.result)] /\ kont' = kont
       ELSE IF Head(ctl.parts).p = "Literal"
       THEN /\ ctl' = [op |-> "tmpl", parts |-> Tail(ctl.parts),
                       result |-> ctl.result \o Head(ctl.parts).s]
            /\ kont' = kont
       ELSE /\ ctl' = [op |-> "expr", expr |-> Head(ctl.parts).expr]
            /\ kont' = Push([k |-> "tmpl", parts |-> Tail(ctl.parts),
                             result |-> ctl.result])
    /\ UNCHANGED << program, env, call_depth, out >>

TemplateValue ==
    /\ Waiting("tmpl") /\ ctl.op = "val"
    /\ ctl' = [op |-> "tmpl", parts |-> Top.parts, result |-> Top.result \o Display(ctl.v)]
    /\ kont' = Pop
    /\ UNCHANGED << program, env, call_depth, out >>

\* ---- eval_binary ----
EvalBinary ==
    /\ ctl.op = "expr" /\ ctl.expr.e = "Binary"
    /\ ctl' = [op |-> "expr", expr |-> ctl.expr.left]
    /\ kont' = Push([k |-> "BinaryLeft", op |-> ctl.expr.op, right |-> ctl.expr.right])
    /\ UNCHANGED << program, env, call_depth, out >>

\* A faulty eval_binary: the left value's variant is checked as soon as it
\* is known, before the right operand is evaluated.
BinaryLeftCheckingVariant ==
    /\ Waiting("BinaryLeft") /\ ctl.op = "val"
    /\ IF Top.op # "Eq" /\ ctl.v.t \notin {"Number", "String"}
       THEN /\ ctl' = [op |-> "err",
                       e |-> TypeError("compatible types", type_name(ctl.v))]
            /\ kont' = Pop
       ELSE /\ ctl' = [op |-> "expr", expr |-> Top.right]
            /\ kont' = Append(Pop, [k |-> "BinaryRight", op |-> Top.op, left_val |-> ctl.v])
    /\ UNCHANGED << program, env, call_depth, out >>

BinaryLeft ==
    /\ Waiting("BinaryLeft") /\ ctl.op = "val"
    /\ ctl' = [op |-> "expr", expr |-> Top.right]
    /\ kont' = Append(Pop, [k |-> "BinaryRight", op |-> Top.op, left_val |-> ctl.v])
    /\ UNCHANGED << program, env, call_depth, out >>

BinaryRight ==
    /\ Waiting("BinaryRight") /\ ctl.op = "val"
    /\ ctl' = LET r == BinaryResult(Top.op, Top.left_val, ctl.v)
              IN  IF r.ok THEN [op |-> "val", v |-> r.v] ELSE [op |-> "err", e |-> r.e]
    /\ kont' = Pop
    /\ UNCHANGED << program, env, call_depth, out >>

\* A faulty call_function: `>=` for `>`, the cap one call too early.
CallFunctionEarly ==
    /\ ctl.op = "expr" /\ ctl.expr.e = "FuncCall"
    /\ IF call_depth + 1 >= MAX_CALL_DEPTH
       THEN /\ ctl' = [op |-> "err", e |-> StackOverflow]
            /\ UNCHANGED << kont, call_depth >>
       ELSE /\ ctl' = [op |-> "call", name |-> ctl.expr.name, args |-> ctl.expr.args]
            /\ kont' = Push([k |-> "call_function"])
            /\ call_depth' = call_depth + 1
    /\ UNCHANGED << program, env, out >>

\* ---- call_function ----
\* call_depth += 1; beyond MAX_CALL_DEPTH it is taken back and the call
\* fails, otherwise call_function_inner is entered.
CallFunction ==
    /\ ctl.op = "expr" /\ ctl.expr.e = "FuncCall"
    /\ IF call_depth + 1 > MAX_CALL_DEPTH
       THEN /\ ctl' = [op |-> "err", e |-> StackOverflow]
            /\ UNCHANGED << kont, call_depth >>
       ELSE /\ ctl' = [op |-> "call", name |-> ctl.expr.name, args |-> ctl.expr.args]
            /\ kont' = Push([k |-> "call_function"])
            /\ call_depth' = call_depth + 1
    /\ UNCHANGED << program, env, out >>

\* A faulty call_function: `?` on call_function_inner, so that an error
\* leaves before call_depth is taken back.
CallReturnCountingOk ==
    /\ Waiting("call_function") /\ ctl.op \in {"val", "err"}
    /\ call_depth' = IF ctl.op = "err" THEN call_depth ELSE call_depth - 1
    /\ kont' = Pop
    /\ UNCHANGED << program, ctl, env, out >>

\* call_function: call_function_inner returned; call_depth -= 1.
CallReturn ==
    /\ Waiting("call_function") /\ ctl.op \in {"val", "err"}
    /\ call_depth' = call_depth - 1
    /\ kont' = Pop
    /\ UNCHANGED << program, ctl, env, out >>

\* call_function_inner, a stdlib name: eval_args(args)? first.
CallStdlib ==
    /\ ctl.op = "call" /\ has_function(ctl.name)
    /\ ctl' = [op |-> "args", rest |-> ctl.args, vals |-> << >>]
    /\ kont' = Push([k |-> "stdlib", name |-> ctl.name])
    /\ UNCHANGED << program, env, call_depth, out >>

\* A faulty call_function_inner: no arity check, the arguments are
\* evaluated and zipped with the parameters whatever their number.
CallUserUncheckedArity ==
    /\ ctl.op = "call" /\ ~has_function(ctl.name)
    /\ LET func == get(env, ctl.name)
       IN  CASE ~func.ok ->
                    ctl' = [op |-> "err", e |-> UndefinedFunction(ctl.name)] /\ kont' = kont
             [] func.ok /\ func.v.t # "Function" ->
                    /\ ctl' = [op |-> "err", e |-> TypeError("ilo", type_name(func.v))]
                    /\ kont' = kont
             [] OTHER ->
                    /\ ctl' = [op |-> "args", rest |-> ctl.args, vals |-> << >>]
                    /\ kont' = Push([k |-> "user", name |-> ctl.name,
                                     params |-> func.v.params, body |-> func.v.body])
    /\ UNCHANGED << program, env, call_depth, out >>

\* call_function_inner, any other name: lookup, variant and arity checks,
\* then eval_args(args)?.
CallUser ==
    /\ ctl.op = "call" /\ ~has_function(ctl.name)
    /\ LET func == get(env, ctl.name)
       IN  CASE ~func.ok ->
                    ctl' = [op |-> "err", e |-> UndefinedFunction(ctl.name)] /\ kont' = kont
             [] func.ok /\ func.v.t # "Function" ->
                    /\ ctl' = [op |-> "err", e |-> TypeError("ilo", type_name(func.v))]
                    /\ kont' = kont
             [] func.ok /\ func.v.t = "Function" /\ Len(func.v.params) # Len(ctl.args) ->
                    /\ ctl' = [op |-> "err",
                               e |-> WrongArity(ctl.name, Len(func.v.params), Len(ctl.args))]
                    /\ kont' = kont
             [] OTHER ->
                    /\ ctl' = [op |-> "args", rest |-> ctl.args, vals |-> << >>]
                    /\ kont' = Push([k |-> "user", name |-> ctl.name,
                                     params |-> func.v.params, body |-> func.v.body])
    /\ UNCHANGED << program, env, call_depth, out >>

\* eval_args: the next argument, or the collected values.
ArgsNext ==
    /\ ctl.op = "args"
    /\ IF ctl.rest = << >>
       THEN ctl' = [op |-> "vals", vals |-> ctl.vals] /\ kont' = kont
       ELSE /\ ctl' = [op |-> "expr", expr |-> Head(ctl.rest)]
            /\ kont' = Push([k |-> "args", rest |-> Tail(ctl.rest), vals |-> ctl.vals])
    /\ UNCHANGED << program, env, call_depth, out >>

ArgsValue ==
    /\ Waiting("args") /\ ctl.op = "val"
    /\ ctl' = [op |-> "args", rest |-> Top.rest, vals |-> Append(Top.vals, ctl.v)]
    /\ kont' = Pop
    /\ UNCHANGED << program, env, call_depth, out >>

\* A faulty stdlib call: containers shared by reference, so that an update
\* shows in every variable that holds the updated container.
Updated(scopes, old, new) ==
    [j \in 1..Len(scopes) |->
        [key \in DOMAIN scopes[j] |->
            IF scopes[j][key] = old THEN new ELSE scopes[j][key]]]

StdlibCallInPlace ==
    /\ Waiting("stdlib") /\ ctl.op = "vals"
    /\ LET r == StdLibCall(Top.name, ctl.vals)
       IN  /\ ctl' = IF r.ok THEN [op |-> "val", v |-> r.v] ELSE [op |-> "err", e |-> r.e]
           /\ env' = IF r.ok /\ Top.name \in {kulupu_lon, kulupu_aksen, nasin_lon}
                     THEN Updated(env, ctl.vals[1], r.v) ELSE env
    /\ out' = IF Top.name = toki THEN Append(out, TokiLine(ctl.vals)) ELSE out
    /\ kont' = Pop
    /\ UNCHANGED << program, call_depth >>

\* self.stdlib.call(name, evaluated_args); toki prints its line.
StdlibCall ==
    /\ Waiting("stdlib") /\ ctl.op = "vals"
    /\ ctl' = LET r == StdLibCall(Top.name, ctl.vals)
              IN  IF r.ok THEN [op |-> "val", v |-> r.v] ELSE [op |-> "err", e |-> r.e]
    /\ out' = IF Top.name = toki THEN Append(out, TokiLine(ctl.vals)) ELSE out
    /\ kont' = Pop
    /\ UNCHANGED << program, env, call_depth >>

\* The parameters are defined in order in the pushed frame.
RECURSIVE BindParams(_, _, _)
BindParams(scopes, params, vals) ==
    IF params = << >> \/ vals = << >> THEN scopes
    ELSE BindParams(define(scopes, Head(params), Head(vals)), Tail(params), Tail(vals))

\* call_function_inner: isolate, push the function scope, bind, run the body.
EnterBody ==
    /\ Waiting("user") /\ ctl.op = "vals"
    /\ env' = BindParams(push_scope(isolate_for_function(env)), Top.params, ctl.vals)
    /\ ctl' = [op |-> "seq", stmts |-> Top.body]
    /\ kont' = Append(Pop, [k |-> "body", name |-> Top.name, params |-> Top.params,
                             body |-> Top.body, saved_scopes |-> env])
    /\ UNCHANGED << program, call_depth, out >>

\* A faulty return from a body: an error leaves the call before the scopes
\* are restored.
LeaveBodyRestoringOnOk ==
    /\ Waiting("body") /\ ctl.op \in {"cf", "err"}
    /\ env' = IF ctl.op = "err" THEN env ELSE restore_scopes(Top.saved_scopes)
    /\ ctl' = CASE ctl.op = "err" -> ctl
                [] ctl.cf.ret -> [op |-> "val", v |-> ctl.cf.v]
                [] OTHER -> [op |-> "val", v |-> Ala]
    /\ kont' = Pop
    /\ UNCHANGED << program, call_depth, out >>

\* call_function_inner: restore the scopes, then convert the body's result.
LeaveBody ==
    /\ Waiting("body") /\ ctl.op \in {"cf", "err"}
    /\ env' = restore_scopes(Top.saved_scopes)
    /\ ctl' = CASE ctl.op = "err" -> ctl
                [] ctl.cf.ret -> [op |-> "val", v |-> ctl.cf.v]
                [] OTHER -> [op |-> "val", v |-> Ala]
    /\ kont' = Pop
    /\ UNCHANGED << program, call_depth, out >>

\* The `?` operator: an Err leaves the suspended call at once.  These are
\* the calls that do nothing else on the way out.
QuestionMark ==
    { "Assign", "If", "While", "Return", "Expr", "seq", "Neg", "BinaryLeft",
      "BinaryRight", "tmpl", "args", "stdlib", "user" }

Propagate ==
    /\ ctl.op = "err" /\ kont # << >> /\ Top.k \in QuestionMark
    /\ kont' = Pop
    /\ UNCHANGED << program, ctl, env, call_depth, out >>

Next ==
    \/ RunNext \/ RunStmt
    \/ ExecAssign \/ AssignSet \/ ExecIf \/ IfBranch
    \/ ExecWhile \/ WhileCond \/ WhileBody
    \/ ExecFuncDef \/ ExecReturn \/ ReturnValue \/ ExecExpr \/ ExprDiscard
    \/ ExecBlock \/ BlockExit \/ SeqNext \/ SeqStmt
    \/ EvalNumber \/ EvalBool \/ EvalVar \/ EvalNeg \/ NegValue
    \/ EvalTemplateString \/ TemplateNext \/ TemplateValue
    \/ EvalBinary \/ BinaryLeft \/ BinaryRight
    \/ CallFunction \/ CallReturn \/ CallStdlib \/ CallUser
    \/ ArgsNext \/ ArgsValue \/ StdlibCall \/ EnterBody \/ LeaveBody
    \/ Propagate

Spec ==
    InitWith(Programs) /\ [][Next]_vars

\* ---- the deep recursions, picked up near the cap ----
\* The recursive call of f in its body, and what its body has suspended
\* when it makes it: the rest of the body and the Return statement, in the
\* then-block of DescendProgram or at the end of RecurseProgram.
Descends(prog) ==
    Head(prog[1].body).s = "If"

RecursiveCall(prog) ==
    IF Descends(prog) THEN prog[1].body[1].then_block[1].expr
    ELSE prog[1].body[Len(prog[1].body)].expr

InsideBody(prog) ==
    IF Descends(prog)
    THEN << [k |-> "seq", rest |-> Tail(prog[1].body)], [k |-> "block"],
            [k |-> "seq", rest |-> << >>], [k |-> "Return"] >>
    ELSE << [k |-> "seq", rest |-> << >>], [k |-> "Return"] >>

\* The global frame once f is defined.
Globals(prog) ==
    MapInsert(EmptyMap, Id("f"), Function(prog[1].params, prog[1].body))

\* The frames of call number j of f at its recursive call: the parameter
\* (counted down from the first argument in DescendProgram, handed on as
\* it is in RecurseProgram), and the empty frame of the then-block.
LocalScopes(prog, j) ==
    LET first == prog[2].expr.args[1].n
    IN  IF Descends(prog)
        THEN << MapInsert(EmptyMap, Id("n"), Number(NumSub(first, Num(j - 1)))), EmptyMap >>
        ELSE << MapInsert(EmptyMap, Id("a"), Number(first)) >>

\* What call number j has on kont: saved_scopes are the caller's scopes.
Suspended(prog, j) ==
    << [k |-> "call_function"],
       [k |-> "body", name |-> Id("f"), params |-> prog[1].params, body |-> prog[1].body,
        saved_scopes |-> IF j = 1 THEN << Globals(prog) >>
                         ELSE << Globals(prog) >> \o LocalScopes(prog, j - 1)] >>
        \o InsideBody(prog)

\* How many calls before the cap the recursion is picked up.
DepthWindow ==
    2

\* prog with m calls of f active, the innermost about to make the recursive
\* call.  Each call leads from the state for m to the state for m + 1, and
\* the run from the start passes through each of these states: the set of
\* reachable states is the same with and without them.
InitMidRecursion ==
    \E prog \in RecursePrograms, m \in (MAX_CALL_DEPTH - DepthWindow)..(MAX_CALL_DEPTH - 1) :
        LET per == Len(Suspended(prog, 1))
        IN  /\ program = prog
            /\ ctl = [op |-> "expr", expr |-> RecursiveCall(prog)]
            /\ kont = [idx \in 1..(2 + m * per) |->
                        CASE idx = 1 -> [k |-> "run", rest |-> << >>]
                          [] idx = 2 -> [k |-> "Return"]
                          [] OTHER -> Suspended(prog, ((idx - 3) \div per) + 1)
                                                [((idx - 3) % per) + 1]]
            /\ env = << Globals(prog) >> \o LocalScopes(prog, m)
            /\ call_depth = m
            /\ out = << >>

\* The same machine, started also on the programs that recurse without end.
SpecDeep ==
    (InitWith(Programs \cup RecursePrograms) \/ InitMidRecursion) /\ [][Next]_vars

\* i li jo e 0   wile <cond> la open i li jo e i + 1 pini
\* The condition is truthy at every evaluation; i counts the executions of
\* the body.
LoopProgram(cond) ==
    << SAssign(Id("i"), Lit(0)),
       SWhile(cond, << SAssign(Id("i"), EBinary(EVar(Id("i")), "Add", Lit(1))) >>) >>

LoopConds ==
    { EBool(TRUE), Lit(1), Quoted(<< "x" >>) }

LoopPrograms ==
    { LoopProgram(cond) : cond \in LoopConds }

\* How many iterations before the last one the loop is picked up.
LoopWindow ==
    2

\* LoopProgram(cond) after n iterations, n within LoopWindow of the cap: the
\* While arm of exec_stmt is about to evaluate the condition again,
\* `iterations` is n and the body has run n times.  Every iteration leads
\* from the state for n to the state for n + 1, so the run from the start
\* passes through each of these states.
InitMidLoop ==
    \E cond \in LoopConds, n \in (MAX_LOOP_ITERATIONS - LoopWindow)..MAX_LOOP_ITERATIONS :
        /\ program = LoopProgram(cond)
        /\ ctl = [op |-> "expr", expr |-> cond]
        /\ kont = << [k |-> "run", rest |-> << >>],
                     [k |-> "While", cond |-> cond, body |-> program[2].body,
                      iterations |-> n] >>
        /\ env = << MapInsert(EmptyMap, Id("i"), Number(Num(n))) >>
        /\ call_depth = 0
        /\ out = << >>

\* The same machine, started also inside the long loops.
SpecLoop ==
    (InitWith(Programs) \/ InitMidLoop) /\ [][Next]_vars

\* ---- the loops that count, picked up near the cap ----
\* i li jo e 0   wile i lili <limit> la open i li jo e i + 1 pini   pana e i
\* The condition is truthy exactly limit times, then falsy.
CountCond(limit) ==
    EBinary(EVar(Id("i")), "Lt", Lit(limit))

CountProgram(limit) ==
    << SAssign(Id("i"), Lit(0)),
       SWhile(CountCond(limit),
              << SAssign(Id("i"), EBinary(EVar(Id("i")), "Add", Lit(1))) >>),
       SReturn(EVar(Id("i"))) >>

Limits ==
    (MAX_LOOP_ITERATIONS - 1)..(MAX_LOOP_ITERATIONS + 1)

\* i li jo e 0   n li jo e 0
\* wile i lili 2 la open
\*   j li jo e 0
\*   wile j lili 3 la open  j li jo e j + 1   n li jo e n + 1  pini
\*   i li jo e i + 1
\* pini
\* pana e n
Incr(c) ==
    SAssign(Id(c), EBinary(EVar(Id(c)), "Add", Lit(1)))

InnerLoop ==
    SWhile(EBinary(EVar(Id("j")), "Lt", Lit(3)), << Incr("j"), Incr("n") >>)

NestedLoopProgram ==
    << SAssign(Id("i"), Lit(0)),
       SAssign(Id("n"), Lit(0)),
       SWhile(EBinary(EVar(Id("i")), "Lt", Lit(2)),
              << SAssign(Id("j"), Lit(0)), InnerLoop, Incr("i") >>),
       SReturn(EVar(Id("n"))) >>

CountPrograms ==
    { CountProgram(limit) : limit \in Limits }

\* CountProgram(limit) after n iterations, n within LoopWindow of the cap:
\* the While arm is about to evaluate the condition again, `iterations` is n
\* and i is n.  Every iteration leads from the state for n to the state for
\* n + 1, so the run from the start passes through each of these states.
InitMidCount ==
    \E limit \in Limits :
      \E n \in (MAX_LOOP_ITERATIONS - LoopWindow)..
                    (IF limit < MAX_LOOP_ITERATIONS THEN limit ELSE MAX_LOOP_ITERATIONS) :
        /\ program \in CountPrograms /\ program = CountProgram(limit)
        /\ ctl = [op |-> "expr", expr |-> CountCond(limit)]
        /\ kont = << [k |-> "run", rest |-> << program[3] >>],
                     [k |-> "While", cond |-> CountCond(limit), body |-> program[2].body,
                      iterations |-> n] >>
        /\ env = << MapInsert(EmptyMap, Id("i"), Number(Num(n))) >>
        /\ call_depth = 0
        /\ out = << >>

\* The same machine, started also on the nested loops and inside the loops
\* that count to the cap.
SpecCount ==
    (InitWith(Programs \cup { NestedLoopProgram }) \/ InitMidCount) /\ [][Next]_vars

\* ---- Environment on its own ----
\* Environment is a public type: its methods can be called in any order.
\* Here push_scope, pop_scope and define are, on Environment::new(), with
\* ctl telling the last call and whether the build has debug assertions
\* (debug_assert! is compiled only then: in a dev build, not in a release
\* build).
MaxFrames ==
    3

EnvNames ==
    { Id("x"), Id("y") }

EnvValues ==
    { Number(Num(1)), Number(Num(2)) }

Called(method) ==
    [ctl EXCEPT !.last = method]

EnvironmentNew ==
    /\ program = << >>
    /\ \E b \in BOOLEAN :
        ctl = [op |-> "Environment", debug_assertions |-> b, last |-> "new"]
    /\ kont = << >>
    /\ env = << EmptyMap >>
    /\ call_depth = 0
    /\ out = << >>

PushScope ==
    /\ ctl.op = "Environment" /\ Len(env) < MaxFrames
    /\ env' = push_scope(env)
    /\ ctl' = Called("push_scope")
    /\ UNCHANGED << program, kont, call_depth, out >>

\* debug_assert!(self.scopes.len() > 1) panics where it is compiled in;
\* elsewhere the `if` makes the pop of the global frame a no-op.
PopScope ==
    /\ ctl.op = "Environment"
    /\ IF ctl.debug_assertions /\ ~(Len(env) > 1)
       THEN ctl' = [Called("pop_scope") EXCEPT !.op = "panic"] /\ env' = env
       ELSE ctl' = Called("pop_scope") /\ env' = pop_scope(env)
    /\ UNCHANGED << program, kont, call_depth, out >>

Define ==
    /\ ctl.op = "Environment"
    /\ \E name \in EnvNames, value \in EnvValues : env' = define(env, name, value)
    /\ ctl' = Called("define")
    /\ UNCHANGED << program, kont, call_depth, out >>

NextEnvironment ==
    PushScope \/ PopScope \/ Define

SpecEnvironment ==
    EnvironmentNew /\ [][NextEnvironment]_vars

(***************************************************************************)
(* Properties.                                                             *)
(***************************************************************************)
Done ==
    ctl.op = "done"

Range(s) ==
    { s[j] : j \in 1..Len(s) }

\* The place in kont of the innermost running function body, 0 at top level.
InnerBody ==
    LET bodies == { j \in 1..Len(kont) : kont[j].k = "body" }
    IN  IF bodies = {} THEN 0 ELSE CHOOSE j \in bodies : \A m \in bodies : m <= j

\* The names a block can bind by itself: its assignment targets and the
\* functions it defines, in nested if and while blocks too.
RECURSIVE BoundBy(_)
BoundBy(block) ==
    IF block = << >> THEN {}
    ELSE LET stmt == Head(block)
             here == CASE stmt.s = "Assign" -> { stmt.target }
                       [] stmt.s = "FuncDef" -> { stmt.name }
                       [] stmt.s = "If" ->
                            BoundBy(stmt.then_block)
                                \cup (IF stmt.else_block = << >> THEN {}
                                      ELSE BoundBy(stmt.else_block[1]))
                       [] stmt.s = "While" -> BoundBy(stmt.body)
                       [] OTHER -> {}
         IN  here \cup BoundBy(Tail(block))

\* eval_expr is about to read a variable while a function body runs.
ReadInBody ==
    ctl.op = "expr" /\ ctl.expr.e = "Var" /\ InnerBody # 0

Undefined ==
    [op |-> "err", e |-> UndefinedVariable(ctl.expr.name)]

\* What each ScopeProgram returns: y is read from the global frame or from
\* the function's own frame, and from nowhere else.
ScopeResult(where) ==
    CASE where = "global" -> Ok(Number(Num(7)))
      [] where = "param" -> Ok(Number(Num(8)))
      [] where = "ownLocal" -> Ok(Number(Num(3)))
      [] OTHER -> Err(UndefinedVariable(Id("y")))

\* C1, as amended.  While the body of a user function executes, reading a
\* name that is none of its parameters, is not bound in the global frame
\* and is not assigned or defined by the body itself raises
\* UndefinedVariable, even if the name is bound in a local frame of the
\* caller: the read fails in the very step it is made, and the programs
\* that read y from each place end with the result that place gives.
ScopeIsolation ==
    /\ [](\A where \in Wheres :
            program = ScopeProgram(where) /\ Done => ctl.r = ScopeResult(where))
    /\ [][ReadInBody
            /\ ctl.expr.name \notin Range(kont[InnerBody].params)
                                      \cup DOMAIN env[1]
                                      \cup BoundBy(kont[InnerBody].body)
          => ctl' = Undefined]_vars

\* C1, its case reached: the read of y has just failed inside a body whose
\* caller holds y in a local frame.
ScopeIsolationReached ==
    /\ ctl = [op |-> "err", e |-> UndefinedVariable(Id("y"))]
    /\ InnerBody # 0
    /\ Top.k = "Return"
    /\ \E j \in 2..Len(kont[InnerBody].saved_scopes) :
            Id("y") \in DOMAIN kont[InnerBody].saved_scopes[j]

\* C1, as stated.  While the body of a user function executes, reading any
\* name that is neither one of its parameters nor bound in the global frame
\* raises UndefinedVariable.  (A body that reads what it has assigned itself
\* refutes it.)
ScopeIsolationAsStated ==
    [][ReadInBody
        /\ ctl.expr.name \notin Range(kont[InnerBody].params) \cup DOMAIN env[1]
       => ctl' = Undefined]_vars

\* C2.  A call whose name is in the stdlib registry is dispatched to the
\* stdlib whatever the environment binds: the step that resolves the name
\* suspends on the builtin, no user function is ever entered under a
\* registry name, and kulupu_len e (kulupu_sin e (1, 2)) is 2 however the
\* program has bound kulupu_len.
StdlibPrecedence ==
    /\ [](/\ \A j \in 1..Len(kont) :
                kont[j].k \in {"user", "body"} => kont[j].name \notin functions
          /\ program \in ShadowPrograms /\ Done => ctl.r = Ok(Number(Num(2))))
    /\ [][ctl.op = "call" /\ ctl.name \in functions
          => /\ ctl' = [op |-> "args", rest |-> ctl.args, vals |-> << >>]
             /\ kont' = Push([k |-> "stdlib", name |-> ctl.name])]_vars

\* C2, its case reached: kulupu_len has answered 2 although the global
\* frame binds kulupu_len to a user function.
StdlibPrecedenceReached ==
    /\ Done
    /\ ctl.r = Ok(Number(Num(2)))
    /\ kulupu_len \in DOMAIN env[1]
    /\ env[1][kulupu_len].t = "Function"

\* C3.  A call expression, to a builtin or to a user function, that starts
\* while MAX_CALL_DEPTH calls are active fails with StackOverflow in that
\* very step: nothing is suspended, so no name is resolved and no argument
\* evaluated, and call_depth is what it was.  With fewer active calls the
\* call enters call_function_inner one level deeper.  call_depth moves only
\* with the entry and the exit of call_function, and the programs that
\* recurse without end all end in StackOverflow.
CallDepthCap ==
    /\ [](program \in RecursePrograms /\ Done => ctl.r = Err(StackOverflow))
    /\ [][ctl.op = "expr" /\ ctl.expr.e = "FuncCall"
          => IF call_depth >= MAX_CALL_DEPTH
             THEN /\ ctl' = [op |-> "err", e |-> StackOverflow]
                  /\ UNCHANGED << kont, env, call_depth, out >>
             ELSE /\ ctl' = [op |-> "call", name |-> ctl.expr.name, args |-> ctl.expr.args]
                  /\ call_depth' = call_depth + 1
                  /\ Len(kont') = Len(kont) + 1
                  /\ kont'[Len(kont')].k = "call_function"]_vars
    /\ [][~(ctl.op = "expr" /\ ctl.expr.e = "FuncCall")
          => call_depth' = IF Waiting("call_function") /\ Len(kont') < Len(kont)
                           THEN call_depth - 1 ELSE call_depth]_vars

\* C3, its case reached: with MAX_CALL_DEPTH calls of f active, the call
\* of g, bound nowhere, with an argument bound nowhere, has just failed
\* with StackOverflow.
CallDepthCapReached ==
    /\ program = DescendProgram(MAX_CALL_DEPTH - 1)
    /\ ctl = [op |-> "err", e |-> StackOverflow]
    /\ call_depth = MAX_CALL_DEPTH
    /\ Top.k = "Return"

\* C4.  A while statement whose condition is truthy at every evaluation
\* ends with InfiniteLoop: `iterations` never passes MAX_LOOP_ITERATIONS,
\* the body has run at most (exactly) MAX_LOOP_ITERATIONS times when the
\* error is raised, the error is the result of the run, and the run never
\* sticks before it.  Any While arm that sees a truthy condition after
\* MAX_LOOP_ITERATIONS iterations raises the error instead of running the
\* body.
LoopCap ==
    /\ [](program \in LoopPrograms =>
            /\ \A j \in 1..Len(kont) :
                    kont[j].k = "While" => kont[j].iterations <= MAX_LOOP_ITERATIONS
            /\ ~NumGt(env[1][Id("i")].n, Num(MAX_LOOP_ITERATIONS))
            /\ Done => /\ ctl.r = Err(InfiniteLoop)
                       /\ env[1][Id("i")] = Number(Num(MAX_LOOP_ITERATIONS))
            /\ ~Done => ENABLED Next)
    /\ [][Waiting("While") /\ ctl.op = "val" /\ is_truthy(ctl.v)
          => IF Top.iterations >= MAX_LOOP_ITERATIONS
             THEN ctl' = [op |-> "err", e |-> InfiniteLoop] /\ kont' = Pop
             ELSE /\ ctl' = [op |-> "block", block |-> Top.body]
                  /\ kont'[Len(kont)].iterations = Top.iterations + 1]_vars

\* C4, its case reached: the run has ended with InfiniteLoop and the body
\* has run MAX_LOOP_ITERATIONS times.
LoopCapReached ==
    /\ program \in LoopPrograms
    /\ Done
    /\ ctl.r = Err(InfiniteLoop)
    /\ env[1][Id("i")] = Number(Num(MAX_LOOP_ITERATIONS))

\* The relation each comparison word stands for.
Related(word, a, b) ==
    CASE word = "suli" -> a > b
      [] word = "lili" -> a < b
      [] word = "suli_sama" -> a >= b
      [] word = "lili_sama" -> a <= b

\* C5.  Gt, Lt, Ge and Le applied to two Numbers evaluate without error to
\* True when the relation holds and to Nil when it does not: pana e a WORD b
\* returns True or Nil accordingly for each of the four words.  (eval_binary
\* has no arm for Ge and Le: a suli_sama b and a lili_sama b end in
\* TypeError.)
OrderingComparisons ==
    \A a \in Operands, b \in Operands, word \in CompareWords \ { "sama" } :
        program = CompareProgram(a, word, b) /\ Done
            => ctl.r = Ok(IF Related(word, a, b) THEN Bool ELSE Ala)

\* C6.  A Return executed inside a function body, under any nesting of
\* if-blocks and while-loops, ends the body: the signal passes each
\* enclosing statement list, loop and block unchanged and nothing is
\* printed on the way, the body ends with exactly the function's own frame
\* above the global one, the call evaluates to the returned value, or to
\* Nil when the body ends without Return, and the caller's scopes are back.
\* The programs that return 5 from inside the blocks return 5 and print only
\* what precedes the Return; the bodies that fall through give Nil.
ReturnPropagation ==
    /\ [](/\ \A depth \in 0..MaxNest :
                program = ReturnProgram(depth) /\ Done
                    => ctl.r = Ok(Number(Num(5))) /\ out = << >> /\ Len(env) = 1
          /\ \A n0 \in 0..1 :
                program = LoopReturnProgram(n0) /\ Done
                    => /\ ctl.r = Ok(Number(Num(5)))
                       /\ out = IF n0 = 0 THEN << << "a" >> >> ELSE << >>
          /\ \A body \in FallBodies :
                program = FallProgram(body) /\ Done
                    => /\ ctl.r = Ok(Ala)
                       /\ out = IF Len(body) = 2 THEN << << "b" >> >> ELSE << >>)
    /\ [][ctl.op = "cf" /\ ctl.cf.ret /\ kont # << >> /\ Top.k \in {"seq", "While", "block"}
          => ctl' = ctl /\ kont' = Pop /\ out' = out]_vars
    /\ [][Waiting("body") /\ ctl.op = "cf"
          => /\ Len(env) = 2
             /\ ctl' = [op |-> "val", v |-> IF ctl.cf.ret THEN ctl.cf.v ELSE Ala]
             /\ env' = Top.saved_scopes]_vars

\* C6, its case reached: the call has evaluated to the 5 returned from the
\* innermost of MaxNest blocks, nothing printed.
ReturnPropagationReached ==
    /\ program = ReturnProgram(MaxNest)
    /\ ctl = [op |-> "val", v |-> Number(Num(5))]
    /\ Waiting("call_function")
    /\ out = << >>

\* The containers the update programs start from.
List0 ==
    List([j \in 1..MaxLen |-> Number(Num(j))])

Map0 ==
    Map(MapInsert(EmptyMap, << "k" >>, Number(Num(1))))

\* l (or m), its copy a and the result r at the end of an update program.
Unchanged(container, original) ==
    /\ env[1][container] = original
    /\ env[1][Id("a")] = original
    /\ IF ctl.r.ok
       THEN Id("r") \in DOMAIN env[1] /\ env[1][Id("r")] # original
       ELSE Id("r") \notin DOMAIN env[1]

\* C7.  kulupu_lon, kulupu_aksen and nasin_lon leave their container as it
\* was: no stdlib call changes any scope, and after each update program,
\* whether the update succeeded or failed, l (or m) and the copy a hold the
\* original container, while r holds a different one when the update
\* succeeded and is unbound when it failed.
ContainerImmutability ==
    /\ [](/\ \A update \in ListUpdates :
                program = ListUpdateProgram(update) /\ Done => Unchanged(Id("l"), List0)
          /\ \A update \in MapUpdates :
                program = MapUpdateProgram(update) /\ Done => Unchanged(Id("m"), Map0))
    /\ [][Waiting("stdlib") /\ ctl.op = "vals" => env' = env]_vars

\* C7, its case reached: an update has succeeded, r holds its result, and
\* l and a still hold the original list.
ContainerImmutabilityReached ==
    /\ program \in { ListUpdateProgram(update) : update \in ListUpdates }
    /\ Done
    /\ ctl.r.ok
    /\ env[1][Id("l")] = List0
    /\ env[1][Id("a")] = List0
    /\ env[1][Id("r")] # List0

\* C8.  For a list of len elements and an index i that to_index accepts:
\* kulupu_ken returns Nil when i >= len and element i otherwise; kulupu_lon
\* raises IndexOutOfBounds{index: i, len} when i >= len and otherwise
\* returns the list with position i replaced and the rest as it was.
IndexAsymmetry ==
    \A len \in 0..MaxLen, i \in 0..MaxIndex :
        /\ program = KenProgram(len, i) /\ Done
            => ctl.r = IF i >= len THEN Ok(Ala) ELSE Ok(Number(Num(i + 1)))
        /\ program = LonProgram(len, i) /\ Done
            => ctl.r = IF i >= len THEN Err(IndexOutOfBounds(i, len))
                       ELSE Ok(List([j \in 1..len |->
                                        IF j = i + 1 THEN Bool ELSE Number(Num(j))]))

\* C8, its case reached: a read at an index past the end has returned Nil.
IndexAsymmetryReached ==
    \E len \in 0..MaxLen, i \in 0..MaxIndex :
        /\ i >= len
        /\ program = KenProgram(len, i)
        /\ Done
        /\ ctl.r = Ok(Ala)

\* The display of the map {k1: 1, k2: 2} (k2 alone when the keys are the
\* same) with its entries in ascending order of key.
ByKey(k1, k2) ==
    LET one == k1 \o << ":", " ", "1" >>
        two == k2 \o << ":", " ", "2" >>
    IN  << "{" >>
            \o (CASE k1 = k2 -> two
                  [] StrLt(k1, k2) -> one \o << ",", " " >> \o two
                  [] OTHER -> two \o << ",", " " >> \o one)
            \o << "}" >>

\* C9.  The string form of a Map lists its entries in ascending order of
\* key: toki prints {k1: 1, k2: 2} with the smaller key first, for every
\* pair of keys.  (Display sorts the formatted entries, not the keys: with
\* the keys a and a1 the entry "a1: 2" sorts before "a: 1".)
MapDisplaySortedByKey ==
    \A k1 \in Keys, k2 \in Keys :
        program = DisplayProgram(k1, k2) /\ Done => out = << ByKey(k1, k2) >>

\* C10.  A Number is truthy if and only if it is finite and non-zero: the
\* programs that branch (or loop) on x return 1 exactly when x is finite
\* and non-zero, and 0 for zero, NaN and the infinities.  (is_truthy tests
\* only for NaN and zero: the infinities are truthy.)
NumberTruthiness ==
    program \in TruthyPrograms /\ Done
        => LET x == env[1][Id("x")].n
           IN  ctl.r = Ok(Number(Num(IF x.k = "fin" /\ x.num # 0 THEN 1 ELSE 0)))

\* The call of a user function has evaluated its arguments and isolates.
Isolating ==
    Waiting("user") /\ ctl.op = "vals"

\* The body of a user function has ended: ControlFlow or error.
BodyEnded ==
    Waiting("body") /\ ctl.op \in {"cf", "err"}

\* C11.  When the call of a user function finishes, whether the body
\* returned a value, fell through or raised an error, the scope stack is
\* exactly the one saved at isolation: the stack the caller had when the
\* call isolated is the one kept for the call, it is the caller's stack
\* again in the step the body ends, frame for frame and binding for
\* binding, and the caller of each RestoreProgram still reads its own y.
RestoreOnEveryOutcome ==
    /\ [][Isolating => kont'[Len(kont')].saved_scopes = env]_vars
    /\ [][BodyEnded => env' = Top.saved_scopes]_vars
    /\ [](\A outcome \in Outcomes :
            program = RestoreProgram(outcome) /\ Done
                => ctl.r = IF outcome = "error" THEN Err(DivisionByZero)
                           ELSE Ok(Number(Num(7))))

\* The body of f raised DivisionByZero inside its block, and the caller has
\* its two frames back, with its own y.
RestoreOnEveryOutcomeReached ==
    /\ program = RestoreProgram("error")
    /\ ctl = [op |-> "err", e |-> DivisionByZero]
    /\ Waiting("call_function")
    /\ Len(env) = 2 /\ DOMAIN env[2] = { Id("y") } /\ env[2][Id("y")] = Number(Num(7))

\* The calls of call_function that have not returned yet.
ActiveCalls ==
    Cardinality({ j \in 1..Len(kont) : kont[j].k = "call_function" })

\* What each CallProgram ends with.
CallResult(fault) ==
    CASE fault = "lookup" -> Err(UndefinedFunction(Id("h")))
      [] fault = "variant" -> Err(TypeError("ilo", "nanpa"))
      [] fault = "arity" -> Err(WrongArity(Id("f"), 2, 1))
      [] fault = "argument" -> Err(DivisionByZero)
      [] fault = "none" -> Ok(Number(Num(7)))

\* C12.  call_depth is balanced on every way out of call_function: it
\* counts the calls that have not returned, whatever happened in the calls
\* that have (a builtin or a user function returning, falling through or
\* failing, an error in the lookup, the arity check, an argument or the
\* body, the StackOverflow of the cap), the return of a call takes exactly
\* one off, and it is 0 whenever run has returned.
CallDepthBalance ==
    /\ [](call_depth = ActiveCalls)
    /\ [](Done => call_depth = 0 /\ kont = << >>)
    /\ [][Waiting("call_function") /\ ctl.op \in {"val", "err"}
          => call_depth' = call_depth - 1 /\ kont' = Pop /\ ctl' = ctl]_vars
    /\ [](\A fault \in Faults :
            program = CallProgram(fault) /\ Done => ctl.r = CallResult(fault))

\* run has returned the WrongArity of a call made inside a block, and no
\* call is counted.
CallDepthBalanceReached ==
    /\ program = CallProgram("arity")
    /\ Done /\ ctl.r = Err(WrongArity(Id("f"), 2, 1))
    /\ call_depth = 0

\* The frames the suspended calls account for: the global frame, the frame
\* of the running function body if there is one, and one frame for each
\* block entered since and not left.
FramesHeld ==
    1 + (IF InnerBody = 0 THEN 0 ELSE 1)
      + Cardinality({ j \in (InnerBody + 1)..Len(kont) : kont[j].k = "block" })

\* C13.  Executing a block pushes exactly one frame and pops exactly that
\* frame on every outcome (ControlFlow::None, a return, an error): entering
\* appends one empty frame, leaving removes the innermost frame and no
\* other and hands the outcome on unchanged, and at every moment the stack
\* holds one frame for each block entered and not left, so that the depth
\* after a block is the depth before it.
BlockFrameBalance ==
    /\ [](Len(env) = FramesHeld)
    /\ [][ctl.op = "block"
          => /\ env' = Append(env, EmptyMap)
             /\ kont' = Append(kont, [k |-> "block"])]_vars
    /\ [][Waiting("block") /\ ctl.op \in {"cf", "err"}
          => /\ Len(env) > 1
             /\ env' = SubSeq(env, 1, Len(env) - 1)
             /\ kont' = Pop /\ ctl' = ctl]_vars

\* The block that binds y has ended with the DivisionByZero of an argument,
\* and its frame is gone: only the global frame is left.
BlockFrameBalanceReached ==
    /\ program = CallProgram("argument")
    /\ ctl = [op |-> "err", e |-> DivisionByZero]
    /\ Waiting("run")
    /\ Len(env) = 1 /\ Id("y") \notin DOMAIN env[1]

\* call_function_inner is entered for a name that is no builtin.
CallingUser ==
    ctl.op = "call" /\ ~has_function(ctl.name)

\* The step has begun the body of a function.
BodyBegun ==
    /\ Len(kont') = Len(kont) /\ kont # << >>
    /\ kont'[Len(kont')].k = "body" /\ Top.k # "body"

\* C14.  A call of a user function checks in a fixed order: the name is
\* looked up (UndefinedFunction if unbound, TypeError if bound to no
\* Function), then the number of arguments is compared with the number of
\* parameters (WrongArity), and only then are the arguments evaluated, in
\* the caller's environment.  Each of the three errors is raised in the
\* step the call is entered, with nothing suspended and nothing printed, so
\* no argument has been evaluated: the toki in the argument list has left
\* no line.  A body begins only in the isolating step, which has one value
\* for every parameter.
CallCheckOrder ==
    /\ [][CallingUser
          => LET func == get(env, ctl.name)
                 fails(e) == ctl' = [op |-> "err", e |-> e]
                                /\ UNCHANGED << kont, env, out, call_depth >>
             IN  IF ~func.ok THEN fails(UndefinedFunction(ctl.name))
                 ELSE IF func.v.t # "Function"
                 THEN fails(TypeError("ilo", type_name(func.v)))
                 ELSE IF Len(func.v.params) # Len(ctl.args)
                 THEN fails(WrongArity(ctl.name, Len(func.v.params), Len(ctl.args)))
                 ELSE /\ ctl' = [op |-> "args", rest |-> ctl.args, vals |-> << >>]
                      /\ UNCHANGED << env, out, call_depth >>]_vars
    /\ [][BodyBegun => Isolating /\ Len(ctl.vals) = Len(Top.params)]_vars
    /\ [](\A fault \in Faults :
            program = CallProgram(fault) /\ Done
                => /\ ctl.r = CallResult(fault)
                   /\ out = IF fault \in {"lookup", "variant", "arity"} THEN << >>
                            ELSE << << "a" >> >>)

\* The call f e (toki e ("a")) of the two-parameter f has just failed with
\* WrongArity, and nothing was printed.
CallCheckOrderReached ==
    /\ program = CallProgram("arity")
    /\ ctl = [op |-> "err", e |-> WrongArity(Id("f"), 2, 1)]
    /\ Waiting("call_function")
    /\ out = << >>

\* Stmt::Assign has its value and calls Environment::set.
Setting ==
    Waiting("Assign") /\ ctl.op = "val"

\* The frames that bind name.
Binding(name) ==
    { i \in 1..Len(env) : name \in DOMAIN env[i] }

\* The frame set writes to: the innermost that binds name, the innermost
\* of all when none does.
Written(name) ==
    IF Binding(name) = {} THEN Len(env)
    ELSE CHOOSE i \in Binding(name) : \A j \in Binding(name) : j <= i

\* C15.  Environment::set overwrites the binding in the innermost frame
\* that binds the name, or adds the binding to the innermost frame when no
\* frame binds it; every other frame and every other name is as it was,
\* the number of frames too, and a get of the name gives the value set.
\* The programs that assign x where it is shadowed, bound further out, or
\* bound nowhere end with the value that rule gives.
SetOverwritesInnermost ==
    /\ [][Setting
          => LET name == Top.target
                 w == Written(name)
             IN  /\ Len(env') = Len(env)
                 /\ \A i \in 1..Len(env) : i # w => env'[i] = env[i]
                 /\ DOMAIN env'[w] = DOMAIN env[w] \cup { name }
                 /\ \A other \in DOMAIN env[w] : other # name => env'[w][other] = env[w][other]
                 /\ env'[w][name] = ctl.v
                 /\ get(env', name) = Ok(ctl.v)]_vars
    /\ [](\A bound \in Places :
            program = SetProgram(bound) /\ Done
                => ctl.r = Ok(Number(Num(IF bound = "shadowed" THEN 20 ELSE 2))))
    /\ [](program = SetProgram("shadowed") /\ Done => env[1][Id("x")] = Number(Num(1)))
    /\ [](program = SetProgram("outer") /\ Done => env[1][Id("x")] = Number(Num(2)))

\* x li jo e 2 has just run in the body of f, where x is bound in the
\* global frame and as the parameter: the parameter is 2, the global x is 1.
SetOverwritesInnermostReached ==
    /\ program = SetProgram("shadowed")
    /\ ctl = [op |-> "cf", cf |-> None]
    /\ Len(env) = 2
    /\ env[1][Id("x")] = Number(Num(1))
    /\ Id("x") \in DOMAIN env[2] /\ env[2][Id("x")] = Number(Num(2))

\* What each BinaryProgram ends with, and the lines its operands printed.
BinaryEnd(case) ==
    CASE case = "leftFails" -> << Err(UndefinedVariable(Id("u"))), << >> >>
      [] case = "rightFails" -> << Err(UndefinedVariable(Id("u"))), << << "l" >> >> >>
      [] case = "TypeError" ->
            << Err(TypeError("compatible types", "ala and nanpa")),
               << << "l" >>, << "r" >> >> >>
      [] case = "DivisionByZero" -> << Err(DivisionByZero), << << "l" >>, << "r" >> >> >>
      [] case = "value" -> << Ok(Number(Num(3))), << << "l" >>, << "r" >> >> >>

\* C16.  eval_binary evaluates the left operand, then the right one, and
\* dispatches on the operator only when it has both values.  An error of
\* the left operand is the result at once and the right operand is not
\* evaluated; with a left value the right operand is what is evaluated
\* next, whatever the variant of that value, and an error of the right
\* operand is the result; the match that gives TypeError or DivisionByZero
\* is made in the step that has both values.  The operands that print
\* show the order: nothing for a failing left operand, "l" alone before a
\* failing right operand, "l" then "r" before a TypeError or a
\* DivisionByZero.
BinaryOperandOrder ==
    /\ [][ctl.op = "expr" /\ ctl.expr.e = "Binary"
          => ctl' = [op |-> "expr", expr |-> ctl.expr.left] /\ out' = out]_vars
    /\ [][Waiting("BinaryLeft") /\ ctl.op = "err"
          => ctl' = ctl /\ kont' = Pop /\ out' = out]_vars
    /\ [][Waiting("BinaryLeft") /\ ctl.op = "val"
          => ctl' = [op |-> "expr", expr |-> Top.right] /\ out' = out]_vars
    /\ [][Waiting("BinaryRight") /\ ctl.op = "err"
          => ctl' = ctl /\ kont' = Pop /\ out' = out]_vars
    /\ [][ctl'.op = "err" /\ ctl # ctl' /\ ctl'.e.err \in {"TypeError", "DivisionByZero"}
            /\ kont # << >> /\ Top.k \in {"BinaryLeft", "BinaryRight"}
          => Top.k = "BinaryRight" /\ ctl.op = "val"]_vars
    /\ [](\A case \in BinaryCases :
            program = BinaryProgram(case) /\ Done
                => << ctl.r, out >> = BinaryEnd(case))

\* The left operand has printed and given ala, and the read of u as the
\* right operand has just failed.
BinaryOperandOrderReached ==
    /\ program = BinaryProgram("rightFails")
    /\ ctl = [op |-> "err", e |-> UndefinedVariable(Id("u"))]
    /\ Waiting("BinaryRight")
    /\ Top.left_val = Ala
    /\ out = << << "l" >> >>

\* No call has removed the global frame.
GlobalFrameKept ==
    Len(env) >= 1

\* C17.  Popping the global scope is forbidden: pop_scope called when the
\* stack holds the global frame only panics instead of returning normally,
\* and the stack holds at least one frame in every reachable state.
PopGlobalForbidden ==
    /\ []GlobalFrameKept
    /\ [][Len(env) = 1 /\ ctl'.last = "pop_scope" => ctl'.op = "panic"]_vars

\* A step of eval_expr itself: of an expression, a template, a call or its
\* arguments, or the return of a value or an error to one of them.  The
\* statements of a function body are not among them.
ExprStep ==
    \/ ctl.op \in {"expr", "tmpl", "call", "args", "vals"}
    \/ /\ ctl.op \in {"val", "err"} /\ kont # << >>
       /\ Top.k \in {"Neg", "BinaryLeft", "BinaryRight", "tmpl", "args",
                     "call_function", "stdlib", "user"}

\* What the body of f returns in EffectProgram(effect): the x it sees.
EffectSeen(effect) ==
    CASE effect = "global" -> Number(Num(2))
      [] effect = "function" -> Function(<< >>, << SReturn(Lit(0)) >>)
      [] OTHER -> Number(Num(1))

\* The caller's frames in EffectProgram(effect), before and after the call.
CallerFrames(effect) ==
    << MapInsert(MapInsert(EmptyMap, Id("x"), Number(Num(1))),
                 Id("f"), Function(<< Id("a") >>, EffectBody(effect))),
       MapInsert(EmptyMap, Id("y"), Number(Num(7))) >>

\* C18.  The call of a user function cannot change the caller's variables:
\* what the body assigns or defines, a name of the global frame included,
\* goes to the isolated copy, and after the call every name of the caller,
\* in the global frame and in its local frames, has the value it had
\* before.  No step of the evaluation of an expression changes the
\* environment except the isolation at the start of a body, and the end of
\* that body gives back the environment the isolation found; so the
\* evaluation of an expression leaves the environment as it was.
CallerUnchanged ==
    /\ [][ExprStep /\ ~Isolating => env' = env]_vars
    /\ [][Isolating => kont'[Len(kont')].saved_scopes = env /\ env'[1] = env[1]]_vars
    /\ [][BodyEnded => env' = Top.saved_scopes]_vars
    /\ [](\A effect \in Effects :
            program = EffectProgram(effect)
                => /\ Waiting("call_function") /\ ctl.op = "val"
                        => ctl.v = EffectSeen(effect) /\ env = CallerFrames(effect)
                   /\ Done => ctl.r = Ok(Number(Num(1))))

\* The body of f has assigned 2 to the global name x and returned the 2 it
\* reads; the caller has x = 1 and y = 7.
CallerUnchangedReached ==
    /\ program = EffectProgram("global")
    /\ Waiting("call_function")
    /\ ctl = [op |-> "val", v |-> Number(Num(2))]
    /\ env = CallerFrames("global")

\* exec_block has the block's outcome and pops the block's frame.
BlockEnded ==
    Waiting("block") /\ ctl.op \in {"cf", "err"}

\* C19.  A name first assigned, or a function first defined, inside an
\* if-branch or a while body lives in the frame of that block only: it is
\* put in the innermost frame, it is bound nowhere once the block has
\* ended, so that a read of it after the block raises UndefinedVariable,
\* and the next iteration of a while loop does not find it.  An assignment
\* inside a block to a name bound in an enclosing frame changes that
\* binding and adds nothing to the block's frame, and the new value is the
\* one read after the block.
BlockLocalNames ==
    /\ [][Setting /\ Binding(Top.target) = {}
          => \A i \in 1..Len(env') : Top.target \in DOMAIN env'[i] <=> i = Len(env)]_vars
    /\ [][ctl.op = "stmt" /\ ctl.stmt.s = "FuncDef"
          => /\ ctl.stmt.name \in DOMAIN env'[Len(env)]
             /\ \A i \in 1..(Len(env) - 1) : env'[i] = env[i]]_vars
    /\ [][Setting /\ Binding(Top.target) # {} /\ Len(env) \notin Binding(Top.target)
          => /\ env'[Len(env)] = env[Len(env)]
             /\ get(env', Top.target) = Ok(ctl.v)]_vars
    /\ [][BlockEnded
          => \A name \in DOMAIN env[Len(env)] :
                get(env', name) = get(SubSeq(env, 1, Len(env) - 1), name)]_vars
    /\ [](\A kind \in BlockKinds :
            program = BlockProgram(kind) /\ Done
                => ctl.r = IF kind = "enclosing" THEN Ok(Number(Num(2)))
                           ELSE Err(UndefinedVariable(Id("t"))))
    /\ [](program = BlockProgram("enclosing") /\ Done
            => DOMAIN env[1] = { Id("x") } /\ env[1][Id("x")] = Number(Num(2)))

\* In the second iteration of the loop, after the first one assigned t, the
\* read of t has just failed.
BlockLocalNamesReached ==
    /\ program = BlockProgram("iteration")
    /\ ctl = [op |-> "err", e |-> UndefinedVariable(Id("t"))]
    /\ Waiting("Return")
    /\ Len(env) = 3
    /\ env[1][Id("i")] = Number(Num(1))

\* call_function_inner looks up a name that is no builtin while a function
\* body runs.
CallInBody ==
    CallingUser /\ InnerBody # 0

\* What each NestedDefProgram ends with.
NestedDefResult(shape) ==
    IF shape \in {"recursive", "other", "inBodyRecursive"}
    THEN Err(UndefinedFunction(Id("t")))
    ELSE Ok(Number(Num(5)))

\* C20, as amended.  A user function whose FuncDef executed in a non-global
\* frame can be called from the scope that defined it, but is not visible
\* inside a function body that does not bind its name itself, its own body
\* included: a recursive call to it, or a call to it from another function,
\* raises UndefinedFunction.  Inside a function body a call finds a name
\* only if the global frame binds it at the moment of the call or the body
\* binds it itself (as a parameter or by an assignment or a definition of
\* its own): any other name raises UndefinedFunction in the step the call
\* looks it up, whatever the caller's local frames bind.
NestedFunctionVisibility ==
    /\ [](\A shape \in Shapes :
            program = NestedDefProgram(shape) /\ Done => ctl.r = NestedDefResult(shape))
    /\ [][CallInBody
            /\ ctl.name \notin Range(kont[InnerBody].params)
                                 \cup DOMAIN env[1]
                                 \cup BoundBy(kont[InnerBody].body)
          => ctl' = [op |-> "err", e |-> UndefinedFunction(ctl.name)]]_vars

\* C20, its case reached: t, defined in a block, was called from that
\* block, and the call of t in its own body has just failed.
NestedFunctionVisibilityReached ==
    /\ program = NestedDefProgram("recursive")
    /\ ctl = [op |-> "err", e |-> UndefinedFunction(Id("t"))]
    /\ InnerBody # 0 /\ kont[InnerBody].name = Id("t")
    /\ Waiting("call_function")
    /\ Id("t") \in DOMAIN kont[InnerBody].saved_scopes[2]
    /\ Id("t") \notin DOMAIN env[1]

\* C20, as stated.  Only a function bound in the global frame at the moment
\* of the call can be called from inside a function body: a call of any
\* other name raises UndefinedFunction.  (A body that calls a function it
\* has defined itself, or one it was given as an argument, refutes it.)
NestedFunctionVisibilityAsStated ==
    [][CallInBody /\ ctl.name \notin DOMAIN env[1]
       => ctl' = [op |-> "err", e |-> UndefinedFunction(ctl.name)]]_vars

\* The While arm of exec_stmt has the value of its condition, and it is
\* truthy.
TruthyCond ==
    Waiting("While") /\ ctl.op = "val" /\ is_truthy(ctl.v)

\* What CountProgram(limit) ends with.
CountResult(limit) ==
    IF limit <= MAX_LOOP_ITERATIONS THEN Ok(Number(Num(limit))) ELSE Err(InfiniteLoop)

\* C21.  `iterations` belongs to one execution of one while statement: the
\* statement starts it at 0 each time it is entered, only a truthy
\* condition of that very loop moves it, by one, and the counters of the
\* loops suspended around it stay as they are, so nested loops count
\* independently.  InfiniteLoop is raised only by a truthy condition that
\* comes after MAX_LOOP_ITERATIONS iterations, before the body runs again:
\* a loop whose condition is truthy MAX_LOOP_ITERATIONS times and then
\* falsy completes without error, one whose condition is truthy once more
\* ends with InfiniteLoop, and the inner loop that runs three times in each
\* of two outer iterations runs six times.
LoopCounterPerExecution ==
    /\ [][ctl.op = "stmt" /\ ctl.stmt.s = "While"
          => kont' = Append(kont, [k |-> "While", cond |-> ctl.stmt.cond,
                                   body |-> ctl.stmt.body, iterations |-> 0])]_vars
    /\ [][\A j \in 1..(Len(kont) - 1) : j <= Len(kont') => kont'[j] = kont[j]]_vars
    /\ [][Waiting("While") /\ Len(kont') = Len(kont)
          => kont'[Len(kont)].iterations
                = IF TruthyCond THEN Top.iterations + 1 ELSE Top.iterations]_vars
    /\ [][ctl.op # "err" /\ ctl' = [op |-> "err", e |-> InfiniteLoop]
          => /\ TruthyCond /\ Top.iterations = MAX_LOOP_ITERATIONS
             /\ kont' = Pop /\ env' = env]_vars
    /\ [](\A limit \in Limits :
            program = CountProgram(limit) /\ Done
                => /\ ctl.r = CountResult(limit)
                   /\ env[1][Id("i")]
                        = Number(Num(IF limit <= MAX_LOOP_ITERATIONS THEN limit
                                     ELSE MAX_LOOP_ITERATIONS)))
    /\ [](program = NestedLoopProgram
            => /\ \A j \in 1..Len(kont) : kont[j].k = "While" => kont[j].iterations <= 3
               /\ Done => ctl.r = Ok(Number(Num(6))))

\* The loop whose condition was truthy MAX_LOOP_ITERATIONS times and then
\* falsy has completed, and the run has returned i.
LoopCounterPerExecutionReached ==
    /\ program = CountProgram(MAX_LOOP_ITERATIONS)
    /\ Done
    /\ ctl.r = Ok(Number(Num(MAX_LOOP_ITERATIONS)))

\* What each TopProgram ends with, and what it has printed.
TopEnd(ending) ==
    CASE ending = "Return" -> << Ok(Number(Num(5))), << << "a" >> >> >>
      [] ending = "error" -> << Err(UndefinedVariable(Id("u"))), << << "a" >> >> >>
      [] OTHER -> << Ok(Ala), << << "a" >>, << "z" >> >> >>

\* C22.  A Return executed at top level, inside any nesting of top-level
\* blocks and loops, ends the run: the signal passes the enclosing blocks
\* and loops unchanged, run yields the returned value as Ok and no later
\* statement executes.  A program that executes no top-level Return and
\* raises no error yields Nil, a Return inside a called function not being
\* one.  The first runtime error ends the run with that error and no later
\* statement executes.  Once run has returned nothing happens any more.
TopLevelReturn ==
    /\ [][ctl.op = "cf" /\ ctl.cf.ret /\ InnerBody = 0
            /\ kont # << >> /\ Top.k \in {"seq", "While", "block"}
          => ctl' = ctl /\ kont' = Pop /\ out' = out]_vars
    /\ [][Waiting("run") /\ ctl.op \in {"cf", "err"}
          => /\ kont' = << >> /\ out' = out
             /\ ctl' = IF ctl.op = "err" THEN [op |-> "done", r |-> Err(ctl.e)]
                       ELSE IF ctl.cf.ret THEN [op |-> "done", r |-> Ok(ctl.cf.v)]
                       ELSE [op |-> "run", stmts |-> Top.rest]]_vars
    /\ [][ctl.op = "run" /\ ctl.stmts = << >> => ctl' = [op |-> "done", r |-> Ok(Ala)]]_vars
    /\ [][~Done]_vars
    /\ [](\A ending \in Endings, depth \in 0..MaxNest :
            program = TopProgram(ending, depth) /\ Done
                => << ctl.r, out >> = TopEnd(ending))

\* run has returned the 5 of a Return inside MaxNest top-level blocks, and
\* the toki after them has not run.
TopLevelReturnReached ==
    /\ program = TopProgram("Return", MaxNest)
    /\ Done
    /\ ctl.r = Ok(Number(Num(5)))
    /\ out = << << "a" >> >>

=============================================================================
